---- MODULE Spec2Model ----
(***************************************************************************)
(* dockertest-rs: the Runner of src/src/runner.rs.  One run of            *)
(* Runner::run_impl is modelled as a state machine: the resolution of the *)
(* composition handles, the creation of the network and of the            *)
(* containers, the start scheduler (relaxed tasks spawned on the runtime, *)
(* strict containers started one by one on the orchestrating task), the   *)
(* inspection loop, the test body, log handling and teardown.             *)
(*                                                                         *)
(* A container is identified by the declaration index (1-based) of the    *)
(* composition it stems from: the engine assigns it that id.  Indices     *)
(* stored in lookup_handlers are the 0-based indices of the source.       *)
(***************************************************************************)
EXTENDS Integers, Sequences, FiniteSets, TLC

\* Largest number of compositions declared on one DockerTest instance.
MaxComps == 3

\* Largest number of compositions of a run of the lifecycle model that
\* declares named volumes.
MaxRunVolComps == 2

\* Largest number of compositions, and of named volumes of one composition,
\* in the runs that resolve named volumes only.
MaxVolComps == 2
MaxVols == 2

\* Largest number of compositions in the runs that end with the creation of
\* the containers.
MaxCreateComps == 2

\* Largest number of compositions, and of name injections of one
\* composition, in the runs that resolve names only.
MaxNameComps == 2
MaxInject == 2

\* Compositions of the runs whose relaxed tasks are scheduled fairly.
MaxFairComps == 2

\* Number of runs that execute concurrently and share one static container.
MaxRuns == 3

\* Largest number of references to the static container that runs which
\* returned without teardown have left behind.
MaxLeaked == 1

\* The handles the declared compositions draw from; "zz" is never declared.
Handles == {"a", "b"}
UnknownHandle == "zz"

StartPolicies == {"Relaxed", "Strict"}

\* How a composition is managed: Dynamic is created by this run, External
\* is a container that already runs and for which create yields None, Static
\* is created once and shared by the runs that declare it.
Managements == {"Dynamic", "External", "Static"}

PruneStrategies == {"RunningRegardless", "RunningOnFailure", "StopOnFailure", "RemoveRegardless"}

VARIABLES
    compositions,        \* config.compositions, in declaration order
    volume_decl,         \* named_volumes of every composition: (id, path) pairs
    run_id,              \* Runner.id, the suffix of the resources of the run
    final_named_volume_names, \* final_named_volume_names of every composition
    named_volumes,       \* Runner.named_volumes: the suffixed volume names
    volumes,             \* the named volumes the engine holds
    external_network,    \* config.external_network.is_some()
    container_id,        \* config.container_id.is_some()
    pc,                  \* position of the orchestrating task in run_impl
    outcome,             \* how run_impl returned: "none", "ok", "error", "panic"
    lookup_handlers,     \* Keeper.lookup_handlers: handle -> 0-based index
    lookup_collisions,   \* Keeper.lookup_collisions
    kept,                \* Keeper.kept of the current stage (ids)
    stage,               \* element type of the current Keeper
    network,             \* the run's network on the engine
    engine,              \* engine state of every container of the run
    create_issued,       \* ids for which create_container was issued
    start_issued,        \* ids for which start_container was issued
    start_result,        \* what start_container answered: "none", "Ok", "Err"
    wait_for_invoked,    \* calls of wait_for_ready, per container
    instance,            \* create_containers: next composition to create
    pending,             \* create_containers: pending containers so far
    original_ordered_ids,\* start_containers: snapshot of the id order
    relaxed,             \* start_containers: the relaxed partition
    strict,              \* start_strict_containers: strict containers left
    running_containers,  \* start_containers: running containers so far
    task,                \* state of the spawned relaxed start tasks
    strict_success,      \* "none", "ok", "err"
    failed_strict,       \* the strict container whose start failed first, or 0
    cleanup,             \* the cleanup set handed to teardown
    test_failed,         \* the test_failed argument of teardown
    teardown_calls,      \* number of teardown invocations
    teardown_done,       \* teardown returned
    after_teardown,      \* what run_impl does after teardown returns
    prune,               \* the prune strategy read by teardown
    stop_issued,         \* ids for which stop_container was issued
    remove_issued,       \* ids for which remove_container was issued
    network_removal,     \* remove_network calls issued
    volume_removal,      \* volume names for which remove_volume was issued
    static_cleanup,      \* ids handed to STATIC_CONTAINERS.cleanup
    in_flight,           \* teardown: the calls of its join_all not answered yet
    inspect,             \* inspection loop: next index into kept
    result,              \* test body result: "none", "ok", "panic"
    body_call,           \* the handle the test body asked for, or "none"
    body_ret,            \* what handle() returned to the test body
    logs_handled,        \* handle_logs: containers whose logs were handled
    error,               \* the error run_impl returns, "none" without one
    network_creation,    \* client.create_network calls of the run
    create_env,          \* what the engine answers to the calls of create
    name_decl,           \* user_provided_container_name and image repository
    inject_decl,         \* inject_container_name_env of every composition
    namespace,           \* config.namespace
    name_suffix,         \* the suffixes generate_random_string draws
    container_name,      \* container_name of every composition
    env,                 \* env of every composition
    error_by,            \* what the Startup error of name injection reports
    env_decl,            \* env of every composition as with_env declared it
    warnings,            \* the WARN events of name injection, in order
    run_pc,              \* concurrent runs sharing a static container: position
    static_state,        \* STATIC_CONTAINERS: engine state of the shared container
    static_refs,         \* STATIC_CONTAINERS: its reference count
    outlived             \* runs in their test body since before the latest release

runnerVars == << compositions, volume_decl, run_id, final_named_volume_names,
           named_volumes, volumes, external_network, container_id, pc, outcome,
           lookup_handlers, lookup_collisions, kept, stage, network, engine,
           create_issued, start_issued, start_result, wait_for_invoked,
           instance, pending,
           original_ordered_ids, relaxed, strict, running_containers, task,
           strict_success, failed_strict, cleanup, test_failed, teardown_calls,
           teardown_done, after_teardown, prune, stop_issued, remove_issued,
           network_removal, volume_removal, static_cleanup, in_flight, inspect,
           result,
           body_call, body_ret, logs_handled, error, network_creation, create_env,
           name_decl, inject_decl,
           namespace, name_suffix, container_name, env, error_by, env_decl,
           warnings >>

nameVars == << name_decl, inject_decl, namespace, name_suffix, container_name,
               env, error_by, env_decl, warnings >>

poolVars == << run_pc, static_state, static_refs, outlived >>

vars == << runnerVars, poolVars >>

----------------------------------------------------------------------------
(* Helpers on sequences *)

Range(s) == { s[i] : i \in DOMAIN s }

\* Iterator::position: 0-based index of the first element equal to x, or -1.
RECURSIVE PositionFrom(_, _, _)
PositionFrom(ids, x, i) ==
    IF i > Len(ids) THEN -1
    ELSE IF ids[i] = x THEN i - 1
    ELSE PositionFrom(ids, x, i + 1)

Position(ids, x) == PositionFrom(ids, x, 1)

\* Insert x into the sequence s sorted by its position in ids.
RECURSIVE InsertByPosition(_, _, _)
InsertByPosition(s, x, ids) ==
    IF s = << >> THEN << x >>
    ELSE IF Position(ids, x) < Position(ids, Head(s)) THEN << x >> \o s
    ELSE << Head(s) >> \o InsertByPosition(Tail(s), x, ids)

RECURSIVE SortByPosition(_, _)
SortByPosition(s, ids) ==
    IF s = << >> THEN << >>
    ELSE InsertByPosition(SortByPosition(Tail(s), ids), Head(s), ids)

\* sort_running_containers_into_insertion_order with the sort left out.
sort_running_containers_unsorted(running, insertion_order_ids) == running

\* sort_running_containers_into_insertion_order: running sorted by the index
\* of each id in insertion_order_ids.
sort_running_containers_into_insertion_order(running, insertion_order_ids) ==
    SortByPosition(running, insertion_order_ids)

----------------------------------------------------------------------------
(* Compositions and the Keeper *)

Composition == [handle : Handles, start_policy : StartPolicies, mgmt : Managements]

RECURSIVE SeqsUpTo(_, _)
SeqsUpTo(S, n) ==
    IF n = 0 THEN { << >> }
    ELSE LET shorter == SeqsUpTo(S, n - 1)
         IN  shorter \cup { Append(s, x) : s \in { t \in shorter : Len(t) = n - 1 }, x \in S }

\* The declared composition lists of a run of its own: dynamic and external
\* compositions; an External composition keeps the default start policy,
\* which is never read for it.
CompositionLists ==
    { cs \in SeqsUpTo(Composition, MaxComps) :
        /\ Len(cs) >= 1
        /\ \A i \in DOMAIN cs : cs[i].mgmt # "Static"
        /\ \A i \in DOMAIN cs : cs[i].mgmt = "External" => cs[i].start_policy = "Relaxed" }

Ids == 1..Len(compositions)

\* Composition::handle of the composition declared at index id.
HandleOf(id) == compositions[id].handle

\* validate_composition_handlers, the loop: the tables after the first n
\* compositions.
RECURSIVE ValidateUpTo(_, _)
ValidateUpTo(cs, n) ==
    IF n = 0 THEN [handlers |-> << >>, collisions |-> {}]
    ELSE LET prev == ValidateUpTo(cs, n - 1)
             handle == cs[n].handle
         IN  IF handle \in DOMAIN prev.handlers
             THEN [prev EXCEPT !.collisions = @ \cup {handle}]
             ELSE [prev EXCEPT !.handlers = (handle :> (n - 1)) @@ @]

validate_composition_handlers(cs) == ValidateUpTo(cs, Len(cs))

\* DockerOperations::try_handle on a Keeper.
try_handle(collisions, handlers, k, handle) ==
    IF handle \in collisions THEN [ok |-> FALSE, err |-> "defined multiple times", id |-> 0]
    ELSE IF handle \notin DOMAIN handlers THEN [ok |-> FALSE, err |-> "not found", id |-> 0]
    ELSE IF handlers[handle] + 1 \in DOMAIN k
         THEN [ok |-> TRUE, err |-> "", id |-> k[handlers[handle] + 1]]
         ELSE [ok |-> FALSE, err |-> "index out of bounds", id |-> 0]

----------------------------------------------------------------------------
(* Named volumes *)

\* The bare volume names and container paths compositions declare; one bare
\* name ends like a suffixed name.
VolumeNames == {"v", "w", "v-r1"}
VolumePaths == {"/p", "/q"}

\* An entry of Composition::named_volumes: (id, path).
NamedVolume == [id : VolumeNames, path : VolumePaths]

\* Runner.id as generate_random_string draws it.
RunIds == {"r1", "r2"}

\* The loop over c.named_volumes suffixing a memoized name once more.
RECURSIVE ResolveVolumesOf_resuffixed(_, _, _)
ResolveVolumesOf_resuffixed(named, volume_name_map, suffix) ==
    IF named = << >> THEN [names |-> << >>, map |-> volume_name_map]
    ELSE LET id == Head(named).id
             path == Head(named).path
             hit == id \in DOMAIN volume_name_map
             name == IF hit THEN volume_name_map[id] \o "-" \o suffix \o ":" \o path
                     ELSE id \o "-" \o suffix \o ":" \o path
             map1 == IF hit THEN volume_name_map
                     ELSE (id :> (id \o "-" \o suffix)) @@ volume_name_map
             rest == ResolveVolumesOf_resuffixed(Tail(named), map1, suffix)
         IN  [names |-> << name >> \o rest.names, map |-> rest.map]

\* resolve_named_volumes, the loop over c.named_volumes of one composition,
\* from the volume_name_map so far: the names with path and the map after it.
RECURSIVE ResolveVolumesOf(_, _, _)
ResolveVolumesOf(named, volume_name_map, suffix) ==
    IF named = << >> THEN [names |-> << >>, map |-> volume_name_map]
    ELSE LET id == Head(named).id
             path == Head(named).path
             hit == id \in DOMAIN volume_name_map
             name == IF hit THEN volume_name_map[id] \o ":" \o path
                     ELSE id \o "-" \o suffix \o ":" \o path
             map1 == IF hit THEN volume_name_map
                     ELSE (id :> (id \o "-" \o suffix)) @@ volume_name_map
             rest == ResolveVolumesOf(Tail(named), map1, suffix)
         IN  [names |-> << name >> \o rest.names, map |-> rest.map]

\* resolve_named_volumes, the loop over the compositions: the final names of
\* the first n compositions and the volume_name_map after them.
RECURSIVE ResolveUpTo(_, _, _)
ResolveUpTo(decl, n, suffix) ==
    IF n = 0 THEN [final |-> << >>, map |-> << >>]
    ELSE LET prev == ResolveUpTo(decl, n - 1, suffix)
             r == ResolveVolumesOf(decl[n], prev.map, suffix)
         IN  [final |-> Append(prev.final, r.names), map |-> r.map]

\* resolve_named_volumes: final_named_volume_names of every composition and
\* the drained values of volume_name_map.
resolve_named_volumes(decl, suffix) ==
    LET r == ResolveUpTo(decl, Len(decl), suffix)
    IN  [final |-> r.final,
         named_volumes |-> { r.map[id] : id \in DOMAIN r.map }]

\* The volume declarations of the runs of the lifecycle model: no named
\* volumes, or, in a run of up to MaxRunVolComps compositions, every
\* composition mounts "v" and the first one "w" as well.
RunVolumeDecls(cs) ==
    { [i \in DOMAIN cs |-> << >>] }
    \cup (IF Len(cs) <= MaxRunVolComps
          THEN { [i \in DOMAIN cs |->
                    IF i = 1 THEN << [id |-> "v", path |-> "/p"],
                                     [id |-> "w", path |-> "/q"] >>
                    ELSE << [id |-> "v", path |-> "/q"] >>] }
          ELSE {})

----------------------------------------------------------------------------
(* Container names and name injection *)

\* A name is held as the list of its segments between '/': "my/db" is
\* << "my", "db" >>.  The segments of a name joined by sep.
RECURSIVE Join(_, _)
Join(segs, sep) ==
    IF Len(segs) = 1 THEN segs[1]
    ELSE segs[1] \o sep \o Join(Tail(segs), sep)

\* name.replace("/", to)
replace(name, to) == Join(name, to)

\* Option<String>::None of user_provided_container_name.
None == << >>

\* The name fields the runs that resolve names draw from: a repository
\* alone, and a user provided container name holding a '/'.
NameDecl ==
    { [user_provided_container_name |-> None, repository |-> << "db" >>],
      [user_provided_container_name |-> << "my", "db" >>, repository |-> << "db" >>] }

\* Composition::with_repository: container_name: copy.replace("/", "-")
with_repository(repository) == replace(repository, "-")

\* Composition::handle: the user provided container name, the image
\* repository without one.
handle(c) ==
    IF c.user_provided_container_name = None
    THEN Join(c.repository, "/")
    ELSE Join(c.user_provided_container_name, "/")

\* configure_container_name keeping every '/' of the name.
configure_container_name_unstripped(c, ns, suffix) ==
    LET name == IF c.user_provided_container_name = None
                THEN c.repository
                ELSE c.user_provided_container_name
    IN  ns \o "-" \o Join(name, "/") \o "-" \o suffix

\* Composition::configure_container_name: the container_name it sets.
configure_container_name(c, ns, suffix) ==
    LET name == IF c.user_provided_container_name = None
                THEN c.repository
                ELSE c.user_provided_container_name
        stripped_name == replace(name, "_")
    IN  ns \o "-" \o stripped_name \o "-" \o suffix

\* The suffixes generate_random_string(20) draws for the compositions in
\* turn, in a run where no two draws are the same string.
Suffixes == << "sfxa", "sfxb", "sfxc", "sfxd" >>

\* The strings a draw of generate_random_string(20) returns, where draws are
\* left open: every draw is made by itself, two draws can return the same
\* string.
SuffixDraws == { "sfxa", "sfxb" }

\* inject_container_name(handle, env) pushes (handle, env).
InjectHandles == { "db", "my/db", "zz" }
EnvKeys == { "KEY" }
Injection == [handle : InjectHandles, env : EnvKeys]

\* No error reported by name injection.
NoInjectError == [kind |-> "none", composition |-> "", handle |-> "", cause |-> ""]

\* The closure handing out the injected handle as the name.
inject_transform_by_handle(requesting, inj) ==
    IF inj.handle \in lookup_collisions
    THEN [ok |-> FALSE,
          err |-> [kind |-> "Startup", composition |-> requesting,
                   handle |-> inj.handle, cause |-> "duplicate handle"]]
    ELSE IF inj.handle \notin DOMAIN lookup_handlers
    THEN [ok |-> FALSE,
          err |-> [kind |-> "Startup", composition |-> requesting,
                   handle |-> inj.handle, cause |-> "non-existent handle"]]
    ELSE [ok |-> TRUE, env |-> inj.env, container_name |-> inj.handle]

\* The closure without the check of lookup_collisions.
inject_transform_unchecked_collisions(requesting, inj) ==
    IF inj.handle \notin DOMAIN lookup_handlers
    THEN [ok |-> FALSE,
          err |-> [kind |-> "Startup", composition |-> requesting,
                   handle |-> inj.handle, cause |-> "non-existent handle"]]
    ELSE [ok |-> TRUE, env |-> inj.env,
          container_name |-> container_name[kept[lookup_handlers[inj.handle] + 1]]]

\* The closure of resolve_inject_container_name_env for the injection inj of
\* the composition whose handle is requesting: the (env, container_name)
\* pair, or the Startup error.
inject_transform(requesting, inj) ==
    IF inj.handle \in lookup_collisions
    THEN [ok |-> FALSE,
          err |-> [kind |-> "Startup", composition |-> requesting,
                   handle |-> inj.handle, cause |-> "duplicate handle"]]
    ELSE IF inj.handle \notin DOMAIN lookup_handlers
    THEN [ok |-> FALSE,
          err |-> [kind |-> "Startup", composition |-> requesting,
                   handle |-> inj.handle, cause |-> "non-existent handle"]]
    ELSE [ok |-> TRUE, env |-> inj.env,
          container_name |-> container_name[kept[lookup_handlers[inj.handle] + 1]]]

\* collect::<Result<Vec<_>, _>>() over the injections of one composition:
\* the first error, NoInjectError when every injection resolves.
RECURSIVE transformed_err(_, _)
transformed_err(requesting, injs) ==
    IF injs = << >> THEN NoInjectError
    ELSE LET t == inject_transform(requesting, Head(injs))
         IN  IF ~t.ok THEN t.err ELSE transformed_err(requesting, Tail(injs))

\* The first loop of resolve_inject_container_name_env from composition i
\* on: let to_inject = transformed?;
RECURSIVE first_inject_error(_)
first_inject_error(i) ==
    IF i > Len(kept) THEN NoInjectError
    ELSE LET e == transformed_err(compositions[kept[i]].handle, inject_decl[kept[i]])
         IN  IF e.kind # "none" THEN e ELSE first_inject_error(i + 1)

\* HashMap::insert returning None whatever was under the key.
insert_forgetting_old(map, k, v) ==
    [map |-> [x \in DOMAIN map \cup {k} |-> IF x = k THEN v ELSE map[x]],
     old |-> << >>]

\* HashMap::insert: the map with v under k, and the value that was under k
\* before, Some(old) as << old >> and None as << >>.
insert(map, k, v) ==
    [map |-> [x \in DOMAIN map \cup {k} |-> IF x = k THEN v ELSE map[x]],
     old |-> IF k \in DOMAIN map THEN << map[k] >> ELSE << >>]

\* The second loop of resolve_inject_container_name_env for one composition:
\* c.env.insert(env, name) for every injection in turn, with a WARN event for
\* every insert that returns an old value.
RECURSIVE inject_env(_, _, _, _)
inject_env(map, warned, requesting, injs) ==
    IF injs = << >> THEN [env |-> map, warnings |-> warned]
    ELSE LET t == inject_transform(requesting, Head(injs))
             r == insert(map, t.env, t.container_name)
             w == IF r.old # << >>
                  THEN Append(warned, [env |-> t.env, old |-> r.old[1],
                                       handle |-> Head(injs).handle])
                  ELSE warned
         IN  inject_env(r.map, w, requesting, Tail(injs))

\* The second loop of resolve_inject_container_name_env from composition i
\* on.
RECURSIVE inject_from(_, _, _)
inject_from(i, envs, warned) ==
    IF i > Len(kept) THEN [env |-> envs, warnings |-> warned]
    ELSE LET c == kept[i]
             r == inject_env(envs[c], warned, compositions[c].handle, inject_decl[c])
         IN  inject_from(i + 1, [envs EXCEPT ![c] = r.env], r.warnings)

\* One loop that resolves and inserts composition by composition, from
\* composition i on.
RECURSIVE inject_in_one_pass(_, _, _)
inject_in_one_pass(i, envs, warned) ==
    IF i > Len(kept) THEN [err |-> NoInjectError, env |-> envs, warnings |-> warned]
    ELSE LET c == kept[i]
             e == transformed_err(compositions[c].handle, inject_decl[c])
         IN  IF e.kind # "none" THEN [err |-> e, env |-> envs, warnings |-> warned]
             ELSE LET r == inject_env(envs[c], warned, compositions[c].handle,
                                      inject_decl[c])
                  IN  inject_in_one_pass(i + 1, [envs EXCEPT ![c] = r.env], r.warnings)

\* resolve_inject_container_name_env inserting while it resolves.
resolve_inject_container_name_env_in_one_pass(envs) == inject_in_one_pass(1, envs, << >>)

\* resolve_inject_container_name_env: the first loop resolves every
\* injection of every composition and returns the first error, the second
\* loop inserts.
resolve_inject_container_name_env(envs) ==
    LET e == first_inject_error(1)
    IN  IF e.kind # "none"
        THEN [err |-> e, env |-> envs, warnings |-> << >>]
        ELSE LET r == inject_from(1, envs, << >>)
             IN  [err |-> NoInjectError, env |-> r.env, warnings |-> r.warnings]

\* The name fields of the compositions of a run that declares no container
\* name and no injection: the repository is the handle.
DeclaredWithoutNames ==
    /\ name_decl = [i \in DOMAIN compositions |->
                      [user_provided_container_name |-> None,
                       repository |-> << compositions[i].handle >>]]
    /\ inject_decl = [i \in DOMAIN compositions |-> << >>]
    /\ env_decl = [i \in DOMAIN compositions |-> << >>]
    /\ name_suffix = [i \in DOMAIN compositions |-> Suffixes[i]]

\* A run whose engine holds no container under the name of one of its
\* compositions and whose engine calls are not laid down beforehand.
EngineUnscripted == create_env = << >>

----------------------------------------------------------------------------
(* Initial state: a constructed Runner (Runner::try_new) holding the config *)

\* The fields of a Runner that try_new and the start of run_impl set
\* whatever the configuration is.
ConstructedRunner ==
    /\ final_named_volume_names = [i \in DOMAIN compositions |-> << >>]
    /\ named_volumes = {}
    /\ volumes = {}
    /\ container_id = FALSE
    /\ outcome = "none"
    /\ lookup_handlers = << >>
    /\ lookup_collisions = {}
    /\ kept = << >>
    /\ stage = "none"
    /\ network = IF external_network THEN "external" ELSE "absent"
    /\ engine = [id \in DOMAIN compositions |->
                    IF compositions[id].mgmt = "External" THEN "running"
                    ELSE IF id \in DOMAIN create_env /\ create_env[id].exists THEN "stale"
                    ELSE "absent"]
    /\ create_issued = {}
    /\ start_issued = {}
    /\ start_result = [id \in Ids |-> "none"]
    /\ wait_for_invoked = [id \in Ids |-> 0]
    /\ instance = 1
    /\ pending = << >>
    /\ original_ordered_ids = << >>
    /\ relaxed = << >>
    /\ strict = << >>
    /\ running_containers = << >>
    /\ task = [id \in DOMAIN compositions |-> "none"]
    /\ strict_success = "none"
    /\ failed_strict = 0
    /\ cleanup = << >>
    /\ test_failed = FALSE
    /\ teardown_calls = 0
    /\ teardown_done = FALSE
    /\ after_teardown = "none"
    /\ prune = "none"
    /\ stop_issued = {}
    /\ remove_issued = {}
    /\ network_removal = 0
    /\ volume_removal = {}
    /\ static_cleanup = {}
    /\ in_flight = {}
    /\ inspect = 1
    /\ result = "none"
    /\ body_call = "none"
    /\ body_ret = 0
    /\ logs_handled = 0
    /\ error = "none"
    /\ run_pc = [r \in 1..MaxRuns |-> "idle"]
    /\ static_state = "absent"
    /\ static_refs = 0
    /\ outlived = {}
    /\ network_creation = 0
    /\ namespace = "ns"
    /\ env = env_decl
    /\ warnings = << >>
    /\ container_name = [i \in DOMAIN compositions |->
                            with_repository(name_decl[i].repository)]
    /\ error_by = NoInjectError

Init ==
    /\ compositions \in CompositionLists
    /\ volume_decl \in RunVolumeDecls(compositions)
    /\ run_id = "r1"
    /\ external_network \in BOOLEAN
    /\ pc = "check_if_inside_container"
    /\ DeclaredWithoutNames
    /\ EngineUnscripted
    /\ ConstructedRunner

\* The named volumes the runs that resolve named volumes only draw from: one
\* bare name under two paths, and the bare name that ends like a suffixed
\* name.
VolumeRefs ==
    { nv \in NamedVolume : nv.id = "v" \/ (nv.id = "v-r1" /\ nv.path = "/p") }

\* The volume declarations of these runs: up to MaxVols named volumes for
\* every composition.
VolumeDecls(cs) == [DOMAIN cs -> SeqsUpTo(VolumeRefs, MaxVols)]

\* A Runner constructed for up to MaxVolComps compositions with named
\* volumes.
VolInit ==
    /\ compositions \in
          { [i \in 1..n |-> [handle |-> "a", start_policy |-> "Strict", mgmt |-> "Dynamic"]] :
              n \in 1..MaxVolComps }
    /\ volume_decl \in VolumeDecls(compositions)
    /\ run_id \in RunIds
    /\ external_network = FALSE
    /\ pc = "check_if_inside_container"
    /\ DeclaredWithoutNames
    /\ EngineUnscripted
    /\ ConstructedRunner

configVars == << compositions, volume_decl, run_id, external_network, create_env >>
volumeVars == << final_named_volume_names, named_volumes, volumes >>
keeperVars == << lookup_handlers, lookup_collisions, kept, stage >>
createVars == << instance, pending, create_issued >>
startVars == << original_ordered_ids, relaxed, strict, running_containers, task,
                strict_success, failed_strict, start_issued, start_result,
                wait_for_invoked >>
teardownVars == << cleanup, test_failed, teardown_calls, teardown_done,
                   after_teardown, prune, stop_issued, remove_issued,
                   network_removal, volume_removal, static_cleanup, in_flight >>
bodyVars == << inspect, result, body_call, body_ret, logs_handled >>

\* return Err(e): run_impl returns the error e to its caller.
ReturnErr(e) ==
    /\ pc' = "done"
    /\ outcome' = "error"
    /\ error' = e

\* self.teardown(cl, failed).await, after which run_impl returns Err(e), or
\* goes on to its end when e is "none".
CallTeardown(cl, failed, e) ==
    /\ pc' = "teardown"
    /\ error' = e
    /\ cleanup' = cl
    /\ test_failed' = failed
    /\ teardown_calls' = teardown_calls + 1
    /\ teardown_done' = FALSE
    /\ after_teardown' = IF e = "none" THEN "finish" ELSE "return_err"
    /\ outcome' = outcome
    /\ UNCHANGED << prune, stop_issued, remove_issued, network_removal,
                    volume_removal, static_cleanup, in_flight >>

----------------------------------------------------------------------------
(* Resolution stage *)

\* run_impl resolving the named volumes after the container names.
run_impl_next_volumes_after_names(step) ==
    CASE step = "check_if_inside_container" -> "validate_composition_handlers"
      [] step = "validate_composition_handlers" -> "resolve_final_container_name"
      [] step = "resolve_final_container_name" -> "resolve_named_volumes"
      [] step = "resolve_named_volumes" -> "resolve_inject_container_name_env"
      [] step = "resolve_inject_container_name_env" -> "create_network"

\* run_impl up to the creation of the network, in program order: the call
\* that follows step.
run_impl_next(step) ==
    CASE step = "check_if_inside_container" -> "resolve_named_volumes"
      [] step = "resolve_named_volumes" -> "validate_composition_handlers"
      [] step = "validate_composition_handlers" -> "resolve_final_container_name"
      [] step = "resolve_final_container_name" -> "resolve_inject_container_name_env"
      [] step = "resolve_inject_container_name_env" -> "create_network"

\* check_if_inside_container: DOCKERTEST_CONTAINER_ID_INJECT_TO_NETWORK is
\* set in the environment or it is not.
CheckIfInsideContainer ==
    /\ pc = "check_if_inside_container"
    /\ \E env_set \in BOOLEAN : container_id' = env_set
    /\ pc' = run_impl_next("check_if_inside_container")
    /\ UNCHANGED << configVars, poolVars, nameVars, network_creation, volumeVars, outcome, error, keeperVars, network, engine,
                    createVars, startVars, teardownVars, bodyVars >>

\* self.resolve_named_volumes().await?, which always returns Ok.
ResolveNamedVolumes ==
    /\ pc = "resolve_named_volumes"
    /\ LET r == resolve_named_volumes(volume_decl, run_id)
       IN  /\ final_named_volume_names' = r.final
           /\ named_volumes' = r.named_volumes
    /\ pc' = run_impl_next("resolve_named_volumes")
    /\ UNCHANGED << configVars, poolVars, nameVars, network_creation, volumes, container_id, outcome, error, keeperVars,
                    network, engine, createVars, startVars, teardownVars, bodyVars >>

\* let mut compositions: Keeper<Composition> = self.validate_composition_handlers();
ValidateCompositionHandlers ==
    /\ pc = "validate_composition_handlers"
    /\ LET keeper == validate_composition_handlers(compositions)
       IN  /\ lookup_handlers' = keeper.handlers
           /\ lookup_collisions' = keeper.collisions
    /\ kept' = [i \in DOMAIN compositions |-> i]
    /\ stage' = "Composition"
    /\ pc' = run_impl_next("validate_composition_handlers")
    /\ UNCHANGED << configVars, poolVars, nameVars, network_creation, volumeVars, container_id, outcome, error, network, engine,
                    createVars, startVars, teardownVars, bodyVars >>

\* self.resolve_final_container_name(&mut compositions): every composition
\* gets its own suffix.
ResolveFinalContainerName ==
    /\ pc = "resolve_final_container_name"
    /\ container_name' =
          [i \in DOMAIN compositions |->
              configure_container_name(name_decl[i], namespace, name_suffix[i])]
    /\ pc' = run_impl_next("resolve_final_container_name")
    /\ UNCHANGED << configVars, poolVars, network_creation, volumeVars, container_id, outcome, error,
                    keeperVars, network, engine, createVars, startVars,
                    teardownVars, bodyVars, name_decl, inject_decl, namespace,
                    name_suffix, env, error_by, env_decl, warnings >>

\* self.resolve_inject_container_name_env(&mut compositions)?
ResolveInjectContainerNameEnv ==
    /\ pc = "resolve_inject_container_name_env"
    /\ LET r == resolve_inject_container_name_env(env)
       IN  /\ env' = r.env
           /\ warnings' = r.warnings
           /\ IF r.err.kind # "none"
              THEN /\ ReturnErr("resolve_inject_container_name_env")
                   /\ error_by' = r.err
              ELSE /\ pc' = run_impl_next("resolve_inject_container_name_env")
                   /\ UNCHANGED << outcome, error, error_by >>
    /\ UNCHANGED << configVars, poolVars, network_creation, volumeVars, container_id, keeperVars,
                    network, engine, createVars, startVars, teardownVars,
                    bodyVars, name_decl, inject_decl, namespace, name_suffix,
                    container_name, env_decl >>

----------------------------------------------------------------------------
(* Network creation *)

\* create_network: the result of client.create_network is kept in res, the
\* runner connects itself when it runs inside a container (and returns that
\* error with ?), and res is returned last.
create_network(create_ok, connect_ok) ==
    [ created   |-> create_ok,
      connected |-> container_id /\ connect_ok,
      ok        |-> IF container_id /\ ~connect_ok THEN FALSE ELSE create_ok ]

\* if self.config.external_network.is_none() { self.create_network().await?; }
CreateNetwork ==
    /\ pc = "create_network"
    /\ IF external_network
       THEN /\ pc' = "create_containers"
            /\ UNCHANGED << network, network_creation, outcome, error >>
       ELSE \E create_ok \in BOOLEAN, connect_ok \in BOOLEAN :
               \* the engine connects a container only to a network that exists
               /\ connect_ok => create_ok
               /\ network_creation' = network_creation + 1
               /\ LET r == create_network(create_ok, connect_ok)
                  IN  /\ network' = IF r.created THEN "created" ELSE network
                      /\ IF r.ok
                         THEN pc' = "create_containers" /\ UNCHANGED << outcome, error >>
                         ELSE ReturnErr("create_network")
    /\ UNCHANGED << configVars, poolVars, nameVars, volumeVars, container_id, keeperVars, engine, createVars,
                    startVars, teardownVars, bodyVars >>

----------------------------------------------------------------------------
(* Creation stage *)

\* remove_container_if_exists: every error of inspect_container is mapped to
\* Recoverable ("container did not exist"), whatever made the call fail; when
\* inspect_container answered, the container is force-removed and a failed
\* removal is a Daemon error.
remove_container_if_exists(inspected, remove_ok) ==
    IF ~inspected THEN "Recoverable"
    ELSE IF remove_ok THEN "Ok" ELSE "Daemon"

\* Composition::create of a composition this run creates: the result, whether
\* create_container was issued and whether a container of that name was
\* removed first. Recoverable is swallowed, any other error of the removal
\* is returned.
create(inspected, remove_ok, image_pulled, create_ok) ==
    LET removal == remove_container_if_exists(inspected, remove_ok)
    IN  IF removal = "Daemon"
        THEN [res |-> "Err", issued |-> FALSE, removed |-> FALSE]
        ELSE IF ~image_pulled
        THEN [res |-> "Err", issued |-> FALSE, removed |-> removal = "Ok"]
        ELSE IF ~create_ok
        THEN [res |-> "Err", issued |-> TRUE, removed |-> removal = "Ok"]
        ELSE [res |-> "Some", issued |-> TRUE, removed |-> removal = "Ok"]

\* instance.create(...) as create_containers sees it: Ok(None) for an
\* external container.
instance_create(c, inspected, remove_ok, image_pulled, create_ok) ==
    IF c.mgmt = "External" THEN [res |-> "None", issued |-> FALSE, removed |-> FALSE]
    ELSE create(inspected, remove_ok, image_pulled, create_ok)

\* create_containers, the error arm: the pending containers created so far
\* become the cleanup set.
create_containers_cleanup(created) == created

\* The named volumes of the container of a composition: the engine creates
\* the ones that do not exist when it creates the container.
VolumesOf(id) == { v.id \o "-" \o run_id : v \in Range(volume_decl[id]) }

\* The body of the loop of create_containers for the composition at
\* instance, with the answers of the engine.
CreateInstance(inspected, remove_ok, image_pulled, create_ok) ==
    LET r == instance_create(compositions[instance], inspected, remove_ok,
                             image_pulled, create_ok)
    IN  /\ create_issued' = IF r.issued THEN create_issued \cup {instance}
                            ELSE create_issued
        /\ engine' = IF r.res = "Some"
                     THEN [engine EXCEPT ![instance] = "created"]
                     ELSE IF r.removed
                     THEN [engine EXCEPT ![instance] = "absent"]
                     ELSE engine
        /\ volumes' = IF r.res = "Some"
                      THEN volumes \cup VolumesOf(instance)
                      ELSE volumes
        /\ instance' = instance + 1
        /\ IF r.res = "Err"
           THEN /\ CallTeardown(create_containers_cleanup(pending), TRUE,
                             "create_containers")
                /\ UNCHANGED << pending, keeperVars >>
           ELSE /\ pending' = IF r.res = "Some"
                              THEN Append(pending, instance)
                              ELSE pending
                /\ pc' = "create_containers"
                /\ UNCHANGED << outcome, error, keeperVars, teardownVars >>

\* The end of create_containers: Keeper<PendingContainer> is built from the
\* pending containers.
CreateContainersReturn ==
    /\ kept' = pending
    /\ stage' = "Pending"
    /\ pc' = "start_containers"
    /\ UNCHANGED << outcome, error, engine, volumes, createVars,
                    teardownVars, lookup_handlers, lookup_collisions >>

\* create_containers: one iteration of the loop over compositions.kept, or
\* the construction of Keeper<PendingContainer> when the loop is over.
CreateContainers ==
    /\ pc = "create_containers"
    /\ IF instance > Len(compositions)
       THEN CreateContainersReturn
       ELSE \E inspected \in BOOLEAN, remove_ok \in BOOLEAN,
               image_pulled \in BOOLEAN, create_ok \in BOOLEAN :
               CreateInstance(inspected, remove_ok, image_pulled, create_ok)
    /\ UNCHANGED << configVars, poolVars, nameVars, network_creation, final_named_volume_names, named_volumes,
                    container_id, network, startVars, bodyVars >>

\* create_containers on an engine whose answers are laid down in create_env.
\* inspect_container answers Ok only for a container that exists, and only
\* when the engine answers that call; the forced removal is issued after an
\* answered inspection only; the engine refuses create_container under a
\* name that a container still holds.
CreateContainersOnEngine ==
    /\ pc = "create_containers"
    /\ IF instance > Len(compositions)
       THEN CreateContainersReturn
       ELSE LET a == create_env[instance]
                stale == engine[instance] = "stale"
                inspected == stale /\ a.inspect_ok
                removed == inspected /\ a.remove_ok
            IN  CreateInstance(inspected, a.remove_ok, a.image_pulled,
                               a.create_ok /\ (stale => removed))
    /\ UNCHANGED << configVars, poolVars, nameVars, network_creation, final_named_volume_names, named_volumes,
                    container_id, network, startVars, bodyVars >>

----------------------------------------------------------------------------
(* Start scheduler *)

StartPolicyOf(id) == compositions[id].start_policy

\* pending.into_iter().partition(|c| c.start_policy == StartPolicy::Relaxed)
RelaxedPartition(ids) == SelectSeq(ids, LAMBDA id : StartPolicyOf(id) = "Relaxed")

RECURSIVE Reverse(_)
Reverse(s) == IF s = << >> THEN << >> ELSE Append(Reverse(Tail(s)), Head(s))

\* The strict partition handed over last declared first.
StrictPartition_reversed(ids) ==
    Reverse(SelectSeq(ids, LAMBDA id : StartPolicyOf(id) # "Relaxed"))

StrictPartition(ids) == SelectSeq(ids, LAMBDA id : StartPolicyOf(id) # "Relaxed")

\* start_containers: cleanup.extend(relaxed...); cleanup.extend(strict...).
start_containers_cleanup(ids) == RelaxedPartition(ids) \o StrictPartition(ids)

\* The engine starts a container that exists and was not removed.
Startable(id) == engine[id] \in {"created", "running", "stopped"}

\* What the engine answers to start_container: Ok, an error, or the 404
\* whose body is JSON without a string "message".
StartAnswers == {"Ok", "Err", "NotFoundNoMessage"}

\* client.start_container(&self.name, None): the engine runs the container
\* when it answers Ok.
start_container(eng, id, answer) ==
    IF answer = "Ok" THEN [eng EXCEPT ![id] = "running"] ELSE eng

\* PendingContainer::start_internal after start_container answered: map_err
\* panics on json["message"].as_str().unwrap() for a 404 whose JSON body has
\* no string message, `?` returns the mapped error, otherwise
\* wait.take().unwrap() and waitfor.wait_for_ready(self).
start_internal(answer) ==
    IF answer = "Ok" THEN "wait_for_ready"
    ELSE IF answer = "NotFoundNoMessage" THEN "Panic"
    ELSE "Err"

\* start_relaxed_containers spawning no task.
start_relaxed_containers_deferred(tasks, containers) == tasks

\* start_relaxed_containers: tokio::spawn(c.start()) for every relaxed
\* container; the handles are collected, nothing is awaited.
start_relaxed_containers(tasks, containers) ==
    [id \in DOMAIN tasks |-> IF id \in Range(containers) THEN "spawned" ELSE tasks[id]]

\* start_containers up to start_strict_containers: the snapshot of the ids,
\* the partition, and start_relaxed_containers spawning one task per relaxed
\* container.
StartContainers ==
    /\ pc = "start_containers"
    /\ original_ordered_ids' = kept
    /\ relaxed' = RelaxedPartition(kept)
    /\ strict' = StrictPartition(kept)
    /\ running_containers' = << >>
    /\ task' = start_relaxed_containers(task, RelaxedPartition(kept))
    /\ pc' = "start_strict_containers"
    /\ UNCHANGED << configVars, poolVars, nameVars, network_creation, volumeVars, container_id, outcome, error, keeperVars, network,
                    engine, createVars, strict_success, failed_strict,
                    start_issued, start_result, wait_for_invoked, teardownVars,
                    bodyVars >>

\* start_strict_containers without the break: the loop goes on after a
\* failed start.
start_strict_containers_continue(rest) == rest

\* start_strict_containers, the Err arm: break leaves the containers that
\* follow the failed one unvisited.
start_strict_containers_break(rest) == << >>

\* start_strict_containers at the head of its loop: c.start() of the next
\* strict container issues start_container and awaits the answer of the
\* engine, or the loop is over.
StrictStart ==
    /\ pc = "start_strict_containers"
    /\ IF strict = << >>
       THEN /\ strict_success' = IF strict_success = "err" THEN "err" ELSE "ok"
            /\ pc' = "wait_for_relaxed_containers"
            /\ UNCHANGED start_issued
       ELSE /\ start_issued' = start_issued \cup {Head(strict)}
            /\ pc' = "start_container"
            /\ UNCHANGED strict_success
    /\ UNCHANGED << configVars, poolVars, nameVars, network_creation, volumeVars, container_id, outcome, error, keeperVars, network,
                    engine, createVars, original_ordered_ids, relaxed, strict,
                    running_containers, task, failed_strict, start_result,
                    wait_for_invoked, teardownVars, bodyVars >>

\* The engine answers the start_container of the strict container. A panic
\* of start_internal unwinds start_strict_containers, start_containers and
\* run_impl: nothing is torn down.
StrictStartAnswer ==
    /\ pc = "start_container"
    /\ \E answer \in StartAnswers :
          /\ answer = "Ok" => Startable(Head(strict))
          /\ engine' = start_container(engine, Head(strict), answer)
          /\ start_result' = [start_result EXCEPT ![Head(strict)] = answer]
          /\ LET next == start_internal(answer)
             IN  IF next = "wait_for_ready"
                 THEN /\ pc' = "wait_for_ready"
                      /\ UNCHANGED << strict, strict_success, failed_strict, outcome >>
                 ELSE IF next = "Panic"
                 THEN /\ pc' = "done"
                      /\ outcome' = "panic"
                      /\ failed_strict' = IF failed_strict = 0 THEN Head(strict)
                                          ELSE failed_strict
                      /\ UNCHANGED << strict, strict_success >>
                 ELSE /\ strict_success' = "err"
                      /\ failed_strict' = IF failed_strict = 0 THEN Head(strict)
                                          ELSE failed_strict
                      /\ strict' = start_strict_containers_break(Tail(strict))
                      /\ pc' = "start_strict_containers"
                      /\ UNCHANGED outcome
    /\ UNCHANGED << configVars, poolVars, nameVars, network_creation, volumeVars, container_id, error, keeperVars, network,
                    createVars, original_ordered_ids, relaxed, running_containers,
                    task, start_issued, wait_for_invoked, teardownVars, bodyVars >>

\* start_internal of the strict container that was just started calls
\* waitfor.wait_for_ready(self) and awaits it.
StrictReady ==
    /\ pc = "wait_for_ready"
    /\ wait_for_invoked' = [wait_for_invoked EXCEPT ![Head(strict)] = @ + 1]
    /\ pc' = "await_wait_for_ready"
    /\ UNCHANGED << configVars, poolVars, nameVars, network_creation, volumeVars, container_id, outcome, error, keeperVars, network,
                    engine, createVars, original_ordered_ids, relaxed, strict,
                    running_containers, task, strict_success, failed_strict,
                    start_issued, start_result, teardownVars, bodyVars >>

\* The readiness strategy of the strict container answers, and
\* start_strict_containers pushes the running container or breaks.
StrictReadyAnswer ==
    /\ pc = "await_wait_for_ready"
    /\ \E ready \in BOOLEAN :
          IF ready
          THEN /\ running_containers' = Append(running_containers, Head(strict))
               /\ strict' = Tail(strict)
               /\ UNCHANGED << strict_success, failed_strict >>
          ELSE /\ strict_success' = "err"
               /\ failed_strict' = IF failed_strict = 0 THEN Head(strict) ELSE failed_strict
               /\ strict' = start_strict_containers_break(Tail(strict))
               /\ UNCHANGED running_containers
    /\ pc' = "start_strict_containers"
    /\ UNCHANGED << configVars, poolVars, nameVars, network_creation, volumeVars, container_id, outcome, error, keeperVars, network,
                    engine, createVars, original_ordered_ids, relaxed, task,
                    start_issued, start_result, wait_for_invoked, teardownVars,
                    bodyVars >>

\* A spawned relaxed task runs c.start(): it issues start_container and
\* awaits the answer of the engine.
RelaxedStart(id) ==
    /\ task[id] = "spawned"
    /\ start_issued' = start_issued \cup {id}
    /\ task' = [task EXCEPT ![id] = "starting"]
    /\ UNCHANGED << configVars, poolVars, nameVars, network_creation, volumeVars, container_id, pc, outcome, error, keeperVars,
                    network, engine, createVars, original_ordered_ids, relaxed, strict,
                    running_containers, strict_success, failed_strict,
                    start_result, wait_for_invoked, teardownVars, bodyVars >>

\* The engine answers the start_container of a relaxed task; a panic of
\* start_internal ends the task, and its JoinHandle holds a JoinError.
RelaxedStartAnswer(id) ==
    /\ task[id] = "starting"
    /\ \E answer \in StartAnswers :
          /\ answer = "Ok" => Startable(id)
          /\ engine' = start_container(engine, id, answer)
          /\ start_result' = [start_result EXCEPT ![id] = answer]
          /\ task' = [task EXCEPT ![id] =
                         LET next == start_internal(answer)
                         IN  IF next = "wait_for_ready" THEN "started"
                             ELSE IF next = "Panic" THEN "panicked"
                             ELSE "failed"]
    /\ UNCHANGED << configVars, poolVars, nameVars, network_creation, volumeVars, container_id, pc, outcome, error, keeperVars,
                    network, createVars, original_ordered_ids, relaxed, strict,
                    running_containers, strict_success, failed_strict,
                    start_issued, wait_for_invoked, teardownVars, bodyVars >>

\* start_internal of a started relaxed container calls
\* waitfor.wait_for_ready(self) and awaits it.
RelaxedReady(id) ==
    /\ task[id] = "started"
    /\ wait_for_invoked' = [wait_for_invoked EXCEPT ![id] = @ + 1]
    /\ task' = [task EXCEPT ![id] = "waiting"]
    /\ UNCHANGED << configVars, poolVars, nameVars, network_creation, volumeVars, container_id, pc, outcome, error, keeperVars,
                    network, engine, createVars, original_ordered_ids, relaxed,
                    strict, running_containers, strict_success, failed_strict,
                    start_issued, start_result, teardownVars, bodyVars >>

\* The readiness strategy of a relaxed container answers and the task
\* completes with its Result.
RelaxedReadyAnswer(id) ==
    /\ task[id] = "waiting"
    /\ \E ready \in BOOLEAN :
          task' = [task EXCEPT ![id] = IF ready THEN "ready" ELSE "failed"]
    /\ UNCHANGED << configVars, poolVars, nameVars, network_creation, volumeVars, container_id, pc, outcome, error, keeperVars,
                    network, engine, createVars, original_ordered_ids, relaxed,
                    strict, running_containers, strict_success, failed_strict,
                    start_issued, start_result, wait_for_invoked, teardownVars,
                    bodyVars >>

\* drop(starting_relaxed): a dropped tokio JoinHandle detaches its task,
\* which keeps running.
drop_join_handles(tasks) == tasks

\* A join that completes with the first task that fails.
join_all_completed_at_first_error(starting_relaxed, tasks) ==
    \/ \A id \in Range(starting_relaxed) : tasks[id] \in {"ready", "failed", "panicked"}
    \/ \E id \in Range(starting_relaxed) : tasks[id] \in {"failed", "panicked"}

\* join_all(starting_relaxed).await completes once every task has completed
\* with its result.
join_all_completed(starting_relaxed, tasks) ==
    \A id \in Range(starting_relaxed) : tasks[id] \in {"ready", "failed", "panicked"}

\* The first error of the loop over the joined results, in the order of the
\* handles: the error of a start that failed, or Processing for the
\* JoinError of a task that panicked.
RECURSIVE first_error(_, _)
first_error(starting_relaxed, tasks) ==
    IF starting_relaxed = << >> THEN "none"
    ELSE IF tasks[Head(starting_relaxed)] = "failed" THEN "relaxed_start"
    ELSE IF tasks[Head(starting_relaxed)] = "panicked" THEN "Processing"
    ELSE first_error(Tail(starting_relaxed), tasks)

\* wait_for_relaxed_containers: Err at once when cancel_futures, otherwise
\* the results of join_all in the order of the handles.
wait_for_relaxed_containers(starting_relaxed, cancel_futures, tasks) ==
    IF cancel_futures
    THEN [ok |-> FALSE, running |-> << >>, err |-> "Processing"]
    ELSE IF first_error(starting_relaxed, tasks) # "none"
    THEN [ok |-> FALSE, running |-> << >>, err |-> first_error(starting_relaxed, tasks)]
    ELSE [ok |-> TRUE, running |-> starting_relaxed, err |-> "none"]

\* start_containers taking neither error into account.
start_containers_error_dropped(strict_err, relaxed_err) == "none"

\* The relaxed error first.
start_containers_error_relaxed_first(strict_err, relaxed_err) ==
    IF relaxed_err # "none" THEN relaxed_err ELSE strict_err

\* strict_success.err().or_else(|| relaxed_success.err())
start_containers_error(strict_err, relaxed_err) ==
    IF strict_err # "none" THEN strict_err ELSE relaxed_err

\* start_containers from wait_for_relaxed_containers to its return: join_all
\* completes once every relaxed task has completed.
WaitForRelaxed ==
    /\ pc = "wait_for_relaxed_containers"
    /\ LET cancel_futures == strict_success = "err"
           r == wait_for_relaxed_containers(relaxed, cancel_futures, task)
           all_running == IF r.ok THEN running_containers \o r.running
                          ELSE running_containers
           e == start_containers_error(
                    IF strict_success = "err" THEN "strict_start" ELSE "none", r.err)
       IN  /\ ~cancel_futures => join_all_completed(relaxed, task)
           /\ task' = IF cancel_futures THEN drop_join_handles(task) ELSE task
           /\ running_containers' = all_running
           /\ IF e # "none"
              THEN /\ CallTeardown(start_containers_cleanup(original_ordered_ids), TRUE, e)
                   /\ UNCHANGED keeperVars
              ELSE /\ kept' = sort_running_containers_into_insertion_order(
                                  all_running, original_ordered_ids)
                   /\ stage' = "Running"
                   /\ pc' = "external_containers"
                   /\ UNCHANGED << lookup_handlers, lookup_collisions, outcome, error,
                                   teardownVars >>
    /\ UNCHANGED << configVars, poolVars, nameVars, network_creation, volumeVars, container_id, network, engine, createVars,
                    original_ordered_ids, relaxed, strict, strict_success,
                    failed_strict, start_issued, start_result, wait_for_invoked,
                    bodyVars >>

----------------------------------------------------------------------------
(* Inspection, test body, log handling *)

\* STATIC_CONTAINERS.external_containers(): the running containers of the
\* external compositions of the run, in declaration order.
external_containers ==
    SelectSeq([i \in DOMAIN compositions |-> i],
              LAMBDA id : compositions[id].mgmt = "External")

\* running_containers.kept.append(&mut external_containers) and the cleanup
\* set of the test body.
AppendExternalContainers ==
    /\ pc = "external_containers"
    /\ kept' = kept \o external_containers
    /\ cleanup' = kept \o external_containers
    /\ inspect' = 1
    /\ pc' = "inspect_container"
    /\ UNCHANGED << configVars, poolVars, nameVars, network_creation, volumeVars, container_id, outcome, error, lookup_handlers,
                    lookup_collisions, stage, network, engine, createVars,
                    startVars, test_failed, teardown_calls, teardown_done,
                    after_teardown, prune, stop_issued, remove_issued,
                    network_removal, volume_removal, static_cleanup, in_flight,
                    result,
                    body_call, body_ret, logs_handled >>

\* What inspect_container gives the inspection loop: details it can read, an
\* error (of the call or of the parsing of the port map), or Ok with details
\* that lack network_settings, networks or the ip_address of the endpoint.
InspectAnswers == {"Ok", "Err", "Malformed"}

\* The arm the loop takes: it goes on, it tears down and returns the error,
\* or an unwrap of a None panics and unwinds run_impl.
inspect_container(answer) ==
    IF answer = "Ok" THEN "continue"
    ELSE IF answer = "Malformed" THEN "Panic"
    ELSE "teardown"

\* One iteration of the inspection loop: inspect_container or the parsing of
\* the port map fails, an unwrap panics, or the loop goes on.
InspectContainer ==
    /\ pc = "inspect_container"
    /\ IF inspect > Len(kept)
       THEN /\ pc' = "test_body"
            /\ UNCHANGED << inspect, outcome, error, teardownVars >>
       ELSE \E answer \in InspectAnswers :
               LET arm == inspect_container(answer)
               IN  IF arm = "continue"
                   THEN /\ inspect' = inspect + 1
                        /\ pc' = "inspect_container"
                        /\ UNCHANGED << outcome, error, teardownVars >>
                   ELSE IF arm = "Panic"
                   THEN /\ pc' = "done"
                        /\ outcome' = "panic"
                        /\ UNCHANGED << inspect, error, teardownVars >>
                   ELSE /\ CallTeardown(cleanup, TRUE, "inspect_container")
                        /\ UNCHANGED inspect
    /\ UNCHANGED << configVars, poolVars, nameVars, network_creation, volumeVars, container_id, keeperVars, network, engine,
                    createVars, startVars, result, body_call, body_ret,
                    logs_handled >>

\* What a test body does with its DockerOperations: nothing, a call of
\* failure(msg), or a call of handle(h).
BodyCalls == Handles \cup {UnknownHandle, "none", "failure"}

\* tokio::spawn(test(ops)).await: the body runs to its end or panics; handle
\* and failure panic as DockerOperations states.
TestBody ==
    /\ pc = "test_body"
    /\ \E call \in BodyCalls, asserts_pass \in BOOLEAN :
          LET r == IF call \in {"none", "failure"}
                   THEN [ok |-> call = "none", err |-> "", id |-> 0]
                   ELSE try_handle(lookup_collisions, lookup_handlers, kept, call)
          IN  /\ body_call' = call
              /\ body_ret' = r.id
              /\ result' = IF r.ok /\ asserts_pass THEN "ok" ELSE "panic"
    /\ pc' = "handle_logs"
    /\ UNCHANGED << configVars, poolVars, nameVars, network_creation, volumeVars, container_id, outcome, error, keeperVars, network,
                    engine, createVars, startVars, teardownVars, inspect,
                    logs_handled >>

LogPolicies == {"None", "Always", "OnError"}

\* handle_logs, the body of its loop for one container: skipped without log
\* options and with OnError when the test passed, otherwise the result of
\* handle_log.
handle_log(log_options, failed, log_ok) ==
    IF log_options = "None" THEN "Skipped"
    ELSE IF log_options = "OnError" /\ ~failed THEN "Skipped"
    ELSE IF log_ok THEN "Ok" ELSE "Err"

\* self.handle_logs(&cleanup_containers, result.is_err()).await?; one
\* iteration of its loop, which returns the first error with ?, or, the loop
\* over, self.teardown(cleanup_containers, result.is_err()).
HandleLogs ==
    /\ pc = "handle_logs"
    /\ IF logs_handled = Len(cleanup)
       THEN /\ CallTeardown(cleanup, result = "panic", "none")
            /\ UNCHANGED logs_handled
       ELSE \E log_options \in LogPolicies, log_ok \in BOOLEAN :
               IF handle_log(log_options, result = "panic", log_ok) = "Err"
               THEN /\ ReturnErr("handle_logs")
                    /\ UNCHANGED << logs_handled, teardownVars >>
               ELSE /\ logs_handled' = logs_handled + 1
                    /\ pc' = "handle_logs"
                    /\ UNCHANGED << outcome, error, teardownVars >>
    /\ UNCHANGED << configVars, poolVars, nameVars, network_creation, volumeVars, container_id, keeperVars, network, engine,
                    createVars, startVars, inspect, result, body_call, body_ret >>

----------------------------------------------------------------------------
(* Teardown *)

\* CleanupContainer::is_static: containers under static management are
\* shared between runs; an external container is one of them.
is_static(id) == compositions[id].mgmt # "Dynamic"

\* teardown without cleanup.retain: the static containers stay in cleanup.
NonStatic_retain_all(cl) == cl

\* cleanup.retain(|c| !c.is_static())
NonStatic(cl) == SelectSeq(cl, LAMBDA id : ~is_static(id))

\* The containers of the run the engine still holds.
Existing == { id \in Ids : ~is_static(id) /\ engine[id] \in {"created", "running", "stopped"} }

\* A named volume is in use while a container of the run that mounts it
\* exists.
InUse(v) == \E id \in Existing : v \in VolumesOf(id)

\* teardown returns and run_impl goes on: return Err(e) after a failure,
\* otherwise resume_unwind of the panic of the test body or Ok(()).
TeardownReturn ==
    /\ teardown_done' = TRUE
    /\ pc' = "done"
    /\ outcome' = IF after_teardown = "return_err" THEN "error"
                  ELSE IF result = "panic" THEN "panic" ELSE "ok"

\* match prune without the guard of the RunningOnFailure arm: everything is
\* removed whatever the outcome of the test.
PruneArm_running_on_failure_removes(strategy, failed) ==
    IF strategy = "RunningRegardless" THEN "return"
    ELSE IF strategy = "StopOnFailure" /\ failed THEN "stop"
    ELSE "remove"

\* The arm of match prune teardown takes.
PruneArm(strategy, failed) ==
    IF strategy = "RunningRegardless" THEN "return"
    ELSE IF strategy = "RunningOnFailure" /\ failed THEN "return"
    ELSE IF strategy = "StopOnFailure" /\ failed THEN "stop"
    ELSE "remove"

\* teardown whose stop arm returns without teardown_network.
teardown_order_stop_without_network(arm, external) ==
    IF arm = "return" THEN << >>
    ELSE IF arm = "stop" THEN << "stop_container" >>
    ELSE << "remove_container" >>
             \o (IF external THEN << >> ELSE << "teardown_network" >>)
             \o << "remove_volume" >>

\* teardown that calls teardown_network for an external network too.
teardown_order_external_network_too(arm, external) ==
    IF arm = "return" THEN << >>
    ELSE IF arm = "stop" THEN << "stop_container", "teardown_network" >>
    ELSE << "remove_container", "teardown_network", "remove_volume" >>

\* teardown that returns after teardown_network, the volumes left behind.
teardown_order_without_volumes(arm, external) ==
    IF arm = "return" THEN << >>
    ELSE IF arm = "stop"
    THEN << "stop_container" >> \o (IF external THEN << >> ELSE << "teardown_network" >>)
    ELSE << "remove_container" >>
             \o (IF external THEN << >> ELSE << "teardown_network" >>)

\* teardown that removes the network and the volumes before the containers.
teardown_order_network_first(arm, external) ==
    IF arm = "return" THEN << >>
    ELSE IF arm = "stop"
    THEN << "stop_container" >> \o (IF external THEN << >> ELSE << "teardown_network" >>)
    ELSE (IF external THEN << >> ELSE << "teardown_network" >>)
             \o << "remove_volume", "remove_container" >>

\* The steps of teardown after the match on prune, in program order: an arm
\* that returns, the stop arm, and the removal of everything.
teardown_order(arm, external) ==
    IF arm = "return" THEN << >>
    ELSE IF arm = "stop"
    THEN << "stop_container" >> \o (IF external THEN << >> ELSE << "teardown_network" >>)
    ELSE << "remove_container" >>
             \o (IF external THEN << >> ELSE << "teardown_network" >>)
             \o << "remove_volume" >>

\* The static containers of the cleanup set, handed to
\* STATIC_CONTAINERS.cleanup.
StaticCleanup(cl) == { id \in Range(cl) : is_static(id) }

\* join_all(..).await? : teardown returning when a call of the join failed.
join_all_propagating_failure(any_failed) == IF any_failed THEN "return" ELSE "continue"

\* join_all(..).await; every future is driven to completion and the results
\* are dropped: teardown goes on whatever the calls returned.
join_all(any_failed) == "continue"

\* teardown goes on with the step that follows the current one, or returns.
TeardownAdvance(step) ==
    LET order == teardown_order(PruneArm(prune, test_failed), external_network)
        next == Position(order, step) + 2
    IN  IF next > Len(order)
        THEN TeardownReturn
        ELSE /\ pc' = order[next]
             /\ UNCHANGED << teardown_done, outcome >>

\* teardown after the join_all of a step has completed.
TeardownAfterJoin(step, any_failed) ==
    IF join_all(any_failed) = "return" THEN TeardownReturn ELSE TeardownAdvance(step)

\* The containers of the run a removal has not removed.
NotRemoved(eng, ids) == \E id \in ids : eng[id] \in {"created", "running", "stopped"}

\* teardown up to the match on the prune strategy: the static containers go
\* to STATIC_CONTAINERS.cleanup, and the strategy is read from
\* DOCKERTEST_PRUNE.
Teardown ==
    /\ pc = "teardown"
    /\ static_cleanup' = static_cleanup \cup StaticCleanup(cleanup)
    /\ \E strategy \in PruneStrategies :
          LET order == teardown_order(PruneArm(strategy, test_failed), external_network)
          IN  /\ prune' = strategy
              /\ IF order = << >>
                 THEN TeardownReturn
                 ELSE /\ pc' = order[1]
                      /\ UNCHANGED << teardown_done, outcome >>
    /\ UNCHANGED << configVars, poolVars, nameVars, network_creation, volumeVars, container_id, error, keeperVars,
                    network, engine, createVars, startVars, cleanup, test_failed,
                    teardown_calls, after_teardown, stop_issued, remove_issued,
                    network_removal, volume_removal, in_flight, bodyVars >>

\* The stop arm up to the await of join_all: stop_container is called for
\* every non-static cleanup container.
TeardownStop ==
    /\ pc = "stop_container"
    /\ stop_issued' = stop_issued \cup Range(NonStatic(cleanup))
    /\ in_flight' = Range(NonStatic(cleanup))
    /\ IF NonStatic(cleanup) = << >>
       THEN TeardownAdvance("stop_container")
       ELSE /\ pc' = "join_stop_container"
            /\ UNCHANGED << teardown_done, outcome >>
    /\ UNCHANGED << configVars, poolVars, nameVars, network_creation, volumeVars, container_id, error, keeperVars,
                    network, engine, createVars, startVars, cleanup, test_failed,
                    teardown_calls, after_teardown, prune, remove_issued,
                    network_removal, volume_removal, static_cleanup, bodyVars >>

\* The engine answers one stop_container of the join, which succeeds or
\* fails by itself; the last answer completes join_all.
TeardownStopAnswer(id) ==
    /\ pc = "join_stop_container"
    /\ id \in in_flight
    /\ in_flight' = in_flight \ {id}
    /\ \E stop_ok \in BOOLEAN :
          engine' = IF stop_ok /\ engine[id] = "running"
                    THEN [engine EXCEPT ![id] = "stopped"] ELSE engine
    /\ IF in_flight' = {}
       THEN TeardownAdvance("stop_container")
       ELSE UNCHANGED << pc, teardown_done, outcome >>
    /\ UNCHANGED << configVars, poolVars, nameVars, network_creation, volumeVars, container_id, error, keeperVars,
                    network, createVars, startVars, cleanup, test_failed,
                    teardown_calls, after_teardown, prune, stop_issued, remove_issued,
                    network_removal, volume_removal, static_cleanup, bodyVars >>

\* The removal of everything up to the await of join_all(remove_futs): the
\* forced remove_container is called for every non-static cleanup container.
TeardownRemove ==
    /\ pc = "remove_container"
    /\ remove_issued' = remove_issued \cup Range(NonStatic(cleanup))
    /\ in_flight' = Range(NonStatic(cleanup))
    /\ IF NonStatic(cleanup) = << >>
       THEN TeardownAfterJoin("remove_container", FALSE)
       ELSE /\ pc' = "join_remove_container"
            /\ UNCHANGED << teardown_done, outcome >>
    /\ UNCHANGED << configVars, poolVars, nameVars, network_creation, volumeVars, container_id, error, keeperVars,
                    network, engine, createVars, startVars, cleanup, test_failed,
                    teardown_calls, after_teardown, prune, stop_issued,
                    network_removal, volume_removal, static_cleanup, bodyVars >>

\* The engine answers one remove_container of the join, which succeeds or
\* fails by itself; the last answer completes join_all.
TeardownRemoveAnswer(id) ==
    /\ pc = "join_remove_container"
    /\ id \in in_flight
    /\ in_flight' = in_flight \ {id}
    /\ \E remove_ok \in BOOLEAN :
          engine' = IF remove_ok /\ engine[id] \in {"created", "running", "stopped"}
                    THEN [engine EXCEPT ![id] = "removed"] ELSE engine
    /\ IF in_flight' = {}
       THEN TeardownAfterJoin("remove_container", NotRemoved(engine', remove_issued))
       ELSE UNCHANGED << pc, teardown_done, outcome >>
    /\ UNCHANGED << configVars, poolVars, nameVars, network_creation, volumeVars, container_id, error, keeperVars,
                    network, createVars, startVars, cleanup, test_failed,
                    teardown_calls, after_teardown, prune, stop_issued, remove_issued,
                    network_removal, volume_removal, static_cleanup, bodyVars >>

\* teardown_network up to its first await: inside a container the runner
\* issues disconnect_network for itself, otherwise remove_network.
TeardownNetwork ==
    /\ pc = "teardown_network"
    /\ IF container_id
       THEN /\ pc' = "await_disconnect_network"
            /\ UNCHANGED network_removal
       ELSE /\ pc' = "await_remove_network"
            /\ network_removal' = network_removal + 1
    /\ UNCHANGED << configVars, poolVars, nameVars, network_creation, volumeVars, container_id, outcome, error, keeperVars,
                    network, engine, createVars, startVars, cleanup, test_failed,
                    teardown_calls, teardown_done, after_teardown, prune,
                    stop_issued, remove_issued, volume_removal, static_cleanup,
                    in_flight, bodyVars >>

\* The engine answers disconnect_network; an error is logged and dropped.
TeardownDisconnectAnswer ==
    /\ pc = "await_disconnect_network"
    /\ pc' = "remove_network"
    /\ UNCHANGED << configVars, poolVars, nameVars, network_creation, volumeVars, container_id, outcome, error, keeperVars,
                    network, engine, createVars, startVars, teardownVars, bodyVars >>

\* teardown_network after the disconnect: remove_network is issued.
TeardownRemoveNetwork ==
    /\ pc = "remove_network"
    /\ pc' = "await_remove_network"
    /\ network_removal' = network_removal + 1
    /\ UNCHANGED << configVars, poolVars, nameVars, network_creation, volumeVars, container_id, outcome, error, keeperVars,
                    network, engine, createVars, startVars, cleanup, test_failed,
                    teardown_calls, teardown_done, after_teardown, prune,
                    stop_issued, remove_issued, volume_removal, static_cleanup,
                    in_flight, bodyVars >>

\* The engine answers remove_network: it rejects the removal of a network
\* that containers of the run are still attached to; an error is logged and
\* dropped, and teardown goes on.
TeardownRemoveNetworkAnswer ==
    /\ pc = "await_remove_network"
    /\ \E remove_ok \in BOOLEAN :
          /\ remove_ok => (network = "created" /\ Existing = {})
          /\ network' = IF remove_ok THEN "removed" ELSE network
    /\ TeardownAdvance("teardown_network")
    /\ UNCHANGED << configVars, poolVars, nameVars, network_creation, volumeVars, container_id, error, keeperVars,
                    engine, createVars, startVars, cleanup, test_failed,
                    teardown_calls, after_teardown, prune, stop_issued,
                    remove_issued, network_removal, volume_removal, static_cleanup,
                    in_flight, bodyVars >>

\* The removal of the volumes up to the await of join_all(volume_futs): the
\* forced remove_volume is called for every name of self.named_volumes.
TeardownVolumes ==
    /\ pc = "remove_volume"
    /\ volume_removal' = volume_removal \cup named_volumes
    /\ in_flight' = named_volumes
    /\ IF named_volumes = {}
       THEN TeardownAfterJoin("remove_volume", FALSE)
       ELSE /\ pc' = "join_remove_volume"
            /\ UNCHANGED << teardown_done, outcome >>
    /\ UNCHANGED << configVars, poolVars, nameVars, network_creation, volumeVars,
                    container_id, error, keeperVars, network, engine, createVars,
                    startVars, cleanup, test_failed, teardown_calls,
                    after_teardown, prune, stop_issued, remove_issued,
                    network_removal, static_cleanup, bodyVars >>

\* The engine answers one remove_volume of the join, which succeeds or fails
\* by itself; the engine rejects the removal of a volume that is in use. The
\* last answer completes join_all.
TeardownVolumeAnswer(v) ==
    /\ pc = "join_remove_volume"
    /\ v \in in_flight
    /\ in_flight' = in_flight \ {v}
    /\ \E remove_ok \in BOOLEAN :
          /\ remove_ok => (v \in volumes /\ ~InUse(v))
          /\ volumes' = IF remove_ok THEN volumes \ {v} ELSE volumes
    /\ IF in_flight' = {}
       THEN TeardownAfterJoin("remove_volume", volume_removal \cap volumes' # {})
       ELSE UNCHANGED << pc, teardown_done, outcome >>
    /\ UNCHANGED << configVars, poolVars, nameVars, network_creation, final_named_volume_names, named_volumes,
                    container_id, error, keeperVars, network, engine, createVars,
                    startVars, cleanup, test_failed, teardown_calls,
                    after_teardown, prune, stop_issued, remove_issued,
                    network_removal, volume_removal, static_cleanup, bodyVars >>

----------------------------------------------------------------------------
(* The specification *)

Next ==
    \/ CheckIfInsideContainer
    \/ ResolveNamedVolumes
    \/ ValidateCompositionHandlers
    \/ ResolveFinalContainerName
    \/ ResolveInjectContainerNameEnv
    \/ CreateNetwork
    \/ CreateContainers
    \/ StartContainers
    \/ StrictStart
    \/ StrictStartAnswer
    \/ StrictReady
    \/ StrictReadyAnswer
    \/ \E id \in Ids : RelaxedStart(id)
    \/ \E id \in Ids : RelaxedStartAnswer(id)
    \/ \E id \in Ids : RelaxedReady(id)
    \/ \E id \in Ids : RelaxedReadyAnswer(id)
    \/ WaitForRelaxed
    \/ AppendExternalContainers
    \/ InspectContainer
    \/ TestBody
    \/ HandleLogs
    \/ Teardown
    \/ TeardownStop
    \/ \E id \in Ids : TeardownStopAnswer(id)
    \/ TeardownRemove
    \/ \E id \in Ids : TeardownRemoveAnswer(id)
    \/ TeardownNetwork
    \/ TeardownDisconnectAnswer
    \/ TeardownRemoveNetwork
    \/ TeardownRemoveNetworkAnswer
    \/ TeardownVolumes
    \/ \E v \in named_volumes : TeardownVolumeAnswer(v)

Spec == Init /\ [][Next]_vars

----------------------------------------------------------------------------
(* Concurrent runs that share one static container *)

Runs == 1..MaxRuns

\* A Runner constructed for one static composition; every concurrent run
\* declares the same one.
StaticInit ==
    /\ compositions = << [handle |-> "a", start_policy |-> "Strict", mgmt |-> "Static"] >>
    /\ volume_decl = << << >> >>
    /\ run_id = "r1"
    /\ external_network = FALSE
    /\ pc = "check_if_inside_container"
    /\ DeclaredWithoutNames
    /\ EngineUnscripted
    /\ ConstructedRunner

\* PendingContainer::start: a static container is started by
\* STATIC_CONTAINERS.start, any other one by start_internal.
start(static) == IF static THEN "STATIC_CONTAINERS.start" ELSE "start_internal"

\* The runs that hold a reference to the shared container: they called
\* STATIC_CONTAINERS.start and have not handed the container to
\* STATIC_CONTAINERS.cleanup.
Holders ==
    { r \in Runs : run_pc[r] \in {"running", "teardown", "teardown_failed_start"} }

\* The references that runs which returned without teardown left behind.
Leaked == static_refs - Cardinality(Holders)

\* STATIC_CONTAINERS.start acquires the shared container: one more
\* reference.
Acquire(refs) == refs + 1

\* STATIC_CONTAINERS.cleanup releases the shared container for every id it
\* is handed: one reference less.
Release(refs, ids) == IF 1 \in ids /\ refs > 0 THEN refs - 1 ELSE refs

\* STATIC_CONTAINERS.cleanup removing the shared container whenever it is
\* handed its id.
RemovedByCleanup_whatever_refs(refs, ids) == 1 \in ids

\* STATIC_CONTAINERS.cleanup removes the shared container when it was handed
\* its id and no reference is left after the release.
RemovedByCleanup(refs, ids) == 1 \in ids /\ refs = 0

\* The cleanup set run r hands to teardown: the pending or running static
\* container, or nothing when create_containers failed.
StaticRunCleanup(r) == IF run_pc[r] = "teardown_uncreated" THEN << >> ELSE << 1 >>

\* create_containers of run r: the static container is created by the first
\* run that asks for it, the others get the pending container of the pool;
\* when the creation fails run_impl calls teardown with an empty cleanup set.
StaticCreate(r) ==
    /\ run_pc[r] = "idle"
    /\ \E created \in BOOLEAN :
          /\ run_pc' = [run_pc EXCEPT ![r] = IF created THEN "pending"
                                             ELSE "teardown_uncreated"]
          /\ static_state' = IF created /\ static_state \in {"absent", "removed"}
                             THEN "created" ELSE static_state
    /\ UNCHANGED << runnerVars, static_refs, outlived >>

\* start_containers of run r: c.start() of the static container. The
\* reference is acquired with the call; the container runs when the call
\* succeeds, which takes a container that is there; when it fails run_impl
\* calls teardown with the pending container in the cleanup set.
StaticStart(r) ==
    /\ run_pc[r] = "pending"
    /\ \E started \in BOOLEAN :
          /\ started => static_state \in {"created", "running"}
          /\ run_pc' = [run_pc EXCEPT ![r] = IF started THEN "running"
                                             ELSE "teardown_failed_start"]
          /\ static_state' = IF started THEN "running" ELSE static_state
    /\ static_refs' = IF start(is_static(1)) = "STATIC_CONTAINERS.start"
                      THEN Acquire(static_refs) ELSE static_refs
    /\ UNCHANGED << runnerVars, outlived >>

\* The test body of run r returns or panics: run r reaches its teardown.
StaticBodyEnd(r) ==
    /\ run_pc[r] = "running"
    /\ run_pc' = [run_pc EXCEPT ![r] = "teardown"]
    /\ outlived' = outlived \ {r}
    /\ UNCHANGED << runnerVars, static_state, static_refs >>

\* run_impl of run r returns or unwinds after start_containers without a
\* call of teardown: an unwrap of the inspection panics, or handle_logs
\* returns an error. Its reference is never released.
StaticReturnWithoutTeardown(r) ==
    /\ run_pc[r] = "running"
    /\ Leaked < MaxLeaked
    /\ run_pc' = [run_pc EXCEPT ![r] = "returned"]
    /\ outlived' = outlived \ {r}
    /\ UNCHANGED << runnerVars, static_state, static_refs >>

\* teardown of run r: the static containers of its cleanup set go to
\* STATIC_CONTAINERS.cleanup, whatever the prune strategy and whatever led to
\* the teardown.
StaticTeardown(r) ==
    /\ run_pc[r] \in {"teardown", "teardown_failed_start", "teardown_uncreated"}
    /\ LET ids == StaticCleanup(StaticRunCleanup(r))
           refs == Release(static_refs, ids)
       IN  /\ static_refs' = refs
           /\ static_state' = IF RemovedByCleanup(refs, ids) THEN "removed"
                              ELSE static_state
           /\ run_pc' = [run_pc EXCEPT ![r] = IF ids = {} THEN "done_uncreated"
                                              ELSE "done"]
           /\ outlived' = IF ids = {} THEN outlived
                          ELSE { q \in Runs \ {r} : run_pc[q] = "running" }
    /\ UNCHANGED runnerVars

\* A run that has ended is followed by another run of the test binary.
StaticRunAgain(r) ==
    /\ run_pc[r] \in {"done", "done_uncreated", "returned"}
    /\ run_pc' = [run_pc EXCEPT ![r] = "idle"]
    /\ UNCHANGED << runnerVars, static_state, static_refs, outlived >>

StaticNext ==
    \/ \E r \in Runs : StaticCreate(r)
    \/ \E r \in Runs : StaticStart(r)
    \/ \E r \in Runs : StaticBodyEnd(r)
    \/ \E r \in Runs : StaticReturnWithoutTeardown(r)
    \/ \E r \in Runs : StaticTeardown(r)
    \/ \E r \in Runs : StaticRunAgain(r)

StaticSpec == StaticInit /\ [][StaticNext]_vars

\* run_impl up to the return of resolve_named_volumes.
VolNext ==
    \/ CheckIfInsideContainer
    \/ ResolveNamedVolumes

VolSpec == VolInit /\ [][VolNext]_vars

\* A Runner constructed for up to MaxNameComps compositions with container
\* names and up to MaxInject name injections each; check_if_inside_container
\* found no container id and no named volume was there to resolve.  The
\* first composition has a value under the env key already.
NameInit ==
    /\ \E n \in 1..MaxNameComps :
          /\ name_decl \in [1..n -> NameDecl]
          /\ inject_decl \in [1..n -> SeqsUpTo(Injection, MaxInject)]
    /\ compositions = [i \in DOMAIN name_decl |->
                         [handle |-> handle(name_decl[i]), start_policy |-> "Strict",
                          mgmt |-> "Dynamic"]]
    /\ env_decl = [i \in DOMAIN name_decl |->
                      IF i = 1 THEN [k \in EnvKeys |-> "old"] ELSE << >>]
    /\ name_suffix = [i \in DOMAIN name_decl |-> Suffixes[i]]
    /\ volume_decl = [i \in DOMAIN name_decl |-> << >>]
    /\ run_id = "r1"
    /\ external_network = FALSE
    /\ pc = "validate_composition_handlers"
    /\ EngineUnscripted
    /\ ConstructedRunner

NameNext ==
    \/ ValidateCompositionHandlers
    \/ ResolveFinalContainerName
    \/ ResolveInjectContainerNameEnv

NameSpec == NameInit /\ [][NameNext]_vars

\* A Runner constructed for up to MaxNameComps compositions with container
\* names, one name injection each and a named volume on the first one; the
\* draws of generate_random_string are left open.
ResolutionInit ==
    /\ \E n \in 1..MaxNameComps :
          /\ name_decl \in [1..n -> NameDecl]
          /\ inject_decl \in [1..n -> { << inj >> : inj \in Injection }]
          /\ name_suffix \in [1..n -> SuffixDraws]
    /\ compositions = [i \in DOMAIN name_decl |->
                         [handle |-> handle(name_decl[i]), start_policy |-> "Strict",
                          mgmt |-> "Dynamic"]]
    /\ env_decl = [i \in DOMAIN name_decl |->
                      IF i = 1 THEN [k \in EnvKeys |-> "old"] ELSE << >>]
    /\ volume_decl = [i \in DOMAIN name_decl |->
                         IF i = 1 THEN << [id |-> "v", path |-> "/p"] >> ELSE << >>]
    /\ run_id = "r1"
    /\ external_network = FALSE
    /\ pc = "check_if_inside_container"
    /\ EngineUnscripted
    /\ ConstructedRunner

ResolutionNext ==
    \/ CheckIfInsideContainer
    \/ ResolveNamedVolumes
    \/ ValidateCompositionHandlers
    \/ ResolveFinalContainerName
    \/ ResolveInjectContainerNameEnv

ResolutionSpec == ResolutionInit /\ [][ResolutionNext]_vars

\* The engine at one call of create: whether a container of that name
\* exists, and whether the engine answers inspect_container, carries out
\* the forced removal, has the image and carries out create_container.
EngineAnswers ==
    [exists : BOOLEAN, inspect_ok : BOOLEAN, remove_ok : BOOLEAN,
     image_pulled : BOOLEAN, create_ok : BOOLEAN]

\* A Runner constructed for up to MaxCreateComps compositions, on an engine
\* that may hold a container under the name of any of them.
CreateInit ==
    /\ \E n \in 1..MaxCreateComps :
          /\ compositions \in [1..n -> { c \in Composition :
                                            c.mgmt = "Dynamic" /\ c.start_policy = "Strict" }]
          /\ create_env \in [1..n -> EngineAnswers]
    /\ volume_decl = [i \in DOMAIN compositions |-> << >>]
    /\ run_id = "r1"
    /\ external_network = FALSE
    /\ pc = "check_if_inside_container"
    /\ DeclaredWithoutNames
    /\ ConstructedRunner

CreateNext ==
    \/ CheckIfInsideContainer
    \/ ResolveNamedVolumes
    \/ ValidateCompositionHandlers
    \/ ResolveFinalContainerName
    \/ ResolveInjectContainerNameEnv
    \/ CreateNetwork
    \/ CreateContainersOnEngine

CreateSpec == CreateInit /\ [][CreateNext]_vars

\* The runtime schedules the spawned relaxed tasks while run_impl is on its
\* way: a task that can issue its start command eventually does. Once
\* run_impl has returned or unwound, nothing keeps the runtime running the
\* tasks whose JoinHandles were dropped.
FairInit == Init /\ Len(compositions) <= MaxFairComps

FairSpec ==
    /\ FairInit
    /\ [][Next]_vars
    /\ \A id \in 1..MaxFairComps :
          WF_vars(id \in Ids /\ pc # "done" /\ RelaxedStart(id))

----------------------------------------------------------------------------
(* Properties *)

StrictIds == { id \in Ids : compositions[id].mgmt = "Dynamic" /\ StartPolicyOf(id) = "Strict" }
RelaxedIds == { id \in Ids : compositions[id].mgmt = "Dynamic" /\ StartPolicyOf(id) = "Relaxed" }
DeclaredHandles == { compositions[i].handle : i \in DOMAIN compositions }
DeclaredBy(h) == { i \in DOMAIN compositions : compositions[i].handle = h }
HandlesDistinct == \A h \in DeclaredHandles : Cardinality(DeclaredBy(h)) = 1

\* The engine holds the container: a create command of the run succeeded
\* for it and it was not removed since.
KnownToEngine(id) ==
    compositions[id].mgmt = "Dynamic" /\ engine[id] \in {"created", "running", "stopped"}

StartupErrors == {"create_containers", "strict_start", "relaxed_start"}

\* run_impl has unwound with a panic of the startup: of start_internal on the
\* orchestrating task, or of an unwrap of the inspection loop. (A panic of
\* the test body is caught, and run_impl goes on to handle_logs.)
StartupPanicked == outcome = "panic" /\ teardown_calls = 0

\* The panic was the one of the start of a strict container.
StrictStartPanicked == StartupPanicked /\ stage = "Pending"

\* C1: once creation or startup has failed, every container the engine holds
\* from a create command of the run and every container a start command was
\* issued for (answered with success or with failure) is a member of the
\* cleanup set teardown was handed.
C1_IssuedContainersInCleanup ==
    ((teardown_calls > 0 /\ error \in StartupErrors) \/ StrictStartPanicked) =>
        \A id \in Ids :
            (KnownToEngine(id) \/ id \in start_issued \/
             (id \in create_issued /\ engine[id] # "absent"))
                => id \in Range(cleanup)

\* C2: whenever run_impl has returned an error while the run had created its
\* network or a container, teardown was executed before the return.
C2_ErrorReturnIsSwept ==
    (pc = "done" /\ outcome = "error"
        /\ (network \in {"created", "removed"} \/ create_issued # {}))
        => teardown_done

\* C3: whenever the test body has finished and run_impl has returned,
\* teardown was executed for the cleanup set, whatever handle_logs reported.
C3_LogFailureNeverBlocksTeardown ==
    (pc = "done" /\ result # "none") => (teardown_calls > 0 /\ teardown_done)

\* C4: whenever the test body panicked and run_impl has returned, teardown
\* was run with test_failed = true.
C4_PanicTearsDownAsFailed ==
    (pc = "done" /\ result = "panic") => (teardown_done /\ test_failed)

\* C5: whenever the test body panicked, run_impl ends by re-raising the
\* panic, after log handling and teardown completed; it never ends with a
\* normal or plain error return.
C5_PanicIsReraisedAfterTeardown ==
    (pc = "done" /\ result = "panic")
        => (outcome = "panic" /\ logs_handled = Len(cleanup) /\ teardown_done)

\* C6: the Keeper<RunningContainer> a successful start_containers returns
\* keeps the running containers in exactly the order of the input pending
\* sequence.
C6_RunningInPendingOrder ==
    (pc = "external_containers") =>
        (stage = "Running" /\ kept = original_ordered_ids /\ kept = pending)

\* C6 witness: start_containers returned three containers, a strict one
\* declared between two relaxed ones.
C6_Witness ==
    /\ pc = "external_containers"
    /\ Len(kept) = 3
    /\ StartPolicyOf(kept[1]) = "Relaxed"
    /\ StartPolicyOf(kept[2]) = "Strict"
    /\ StartPolicyOf(kept[3]) = "Relaxed"

\* C7: with pairwise distinct handles, handle(h) in the test body returns the
\* running container that stems from the composition declared with h.
C7_HandleResolvesToDeclaredEntity ==
    (pc = "handle_logs" /\ HandlesDistinct /\ body_call \in DeclaredHandles)
        => (body_ret \in Ids /\ HandleOf(body_ret) = body_call)

\* The Keeper of the current stage is complete: Keeper<Composition> after
\* validation, Keeper<PendingContainer> after creation, and
\* Keeper<RunningContainer> once the external containers were appended.
KeeperReady ==
    \/ stage \in {"Composition", "Pending"}
    \/ stage = "Running" /\ pc # "external_containers"

\* An entity of the current stage: an external composition yields no
\* pending container.
EntityOfStage(id) == stage = "Pending" => compositions[id].mgmt # "External"

\* The code resolves handles on Keeper<Composition> (name injection) and on
\* Keeper<RunningContainer> (try_handle in the test body).
ResolvingStage == stage \in {"Composition", "Running"}

\* C8: at every lifecycle stage, a handle declared by two or more compositions
\* resolves to the collision error while every colliding entity is in the
\* kept sequence, and every handle declared once still resolves to its entity.
C8_CollisionAndTheRestResolvable ==
    KeeperReady =>
        \A h \in DeclaredHandles :
            Cardinality(DeclaredBy(h)) >= 2 =>
                /\ ~try_handle(lookup_collisions, lookup_handlers, kept, h).ok
                /\ try_handle(lookup_collisions, lookup_handlers, kept, h).err
                       = "defined multiple times"
                /\ \A id \in DeclaredBy(h) : EntityOfStage(id) => id \in Range(kept)
                /\ ResolvingStage =>
                       \A g \in DeclaredHandles :
                           Cardinality(DeclaredBy(g)) = 1 =>
                               LET r == try_handle(lookup_collisions, lookup_handlers, kept, g)
                               IN  r.ok /\ HandleOf(r.id) = g

\* C9: once the start of a strict container has failed, no start command is
\* issued for a strict container declared after it.
C9_NoStrictStartAfterFailure ==
    failed_strict # 0 =>
        \A id \in StrictIds : id \in start_issued => id <= failed_strict

\* C9 witness: the run has ended after a strict start failure and a strict
\* container declared after the failed one was created but never started.
C9_Witness ==
    /\ pc = "done"
    /\ failed_strict # 0
    /\ \E id \in StrictIds :
          id > failed_strict /\ id \in Range(original_ordered_ids) /\ id \notin start_issued

C11_StrictStartedInOrder ==
    \A id \in StrictIds \cap start_issued :
        \A j \in StrictIds :
            (j < id /\ j \in Range(original_ordered_ids))
                => j \in Range(running_containers)

\* C11 witness: the second of two strict containers has received its start
\* command while the readiness wait of the first one has passed.
C11_Witness ==
    /\ pc = "wait_for_ready"
    /\ \E i \in StrictIds, j \in StrictIds :
          /\ i < j
          /\ strict # << >> /\ Head(strict) = j
          /\ j \in start_issued
          /\ i \in Range(running_containers)

\* The cells of the prune table that leave everything running, and the ones
\* that remove everything.
LeaveRunningCell ==
    \/ prune = "RunningRegardless"
    \/ prune = "RunningOnFailure" /\ test_failed

RemoveEverythingCell ==
    \/ prune = "RemoveRegardless"
    \/ prune = "RunningOnFailure" /\ ~test_failed
    \/ prune = "StopOnFailure" /\ ~test_failed

\* The named volumes the compositions of the run declare, suffixed.
RunVolumes == UNION { VolumesOf(id) : id \in Ids }

\* The number of remove_network calls a teardown that removes the network
\* makes.
NetworkCalls == IF external_network THEN 0 ELSE 1

\* C12: in the cells (RunningRegardless, passed), (RunningRegardless, failed)
\* and (RunningOnFailure, failed) teardown issues no stop_container, no
\* remove_container, no remove_network and no remove_volume call.
C12_LeaveRunningIssuesNothing ==
    LeaveRunningCell =>
        /\ stop_issued = {}
        /\ remove_issued = {}
        /\ network_removal = 0
        /\ volume_removal = {}

\* C12 witness: teardown has returned in the cell (RunningOnFailure, failed)
\* while the run holds a running container, its network and a named volume.
C12_Witness ==
    /\ teardown_done
    /\ prune = "RunningOnFailure" /\ test_failed
    /\ \E id \in Range(NonStatic(cleanup)) : engine[id] = "running"
    /\ network = "created"
    /\ volumes # {}

\* C13: in the cell (StopOnFailure, failed) teardown issues stop_container
\* for every non-static cleanup container, no remove_container and no
\* remove_volume call, and one remove_network call unless the network is
\* external.
C13_StopOnFailureStopsOnly ==
    (teardown_done /\ prune = "StopOnFailure" /\ test_failed) =>
        /\ stop_issued = Range(NonStatic(cleanup))
        /\ remove_issued = {}
        /\ volume_removal = {}
        /\ network_removal = NetworkCalls

\* C13 witness: teardown has returned in the cell (StopOnFailure, failed)
\* with a stopped container, a named volume and a network of the run.
C13_Witness ==
    /\ teardown_done
    /\ prune = "StopOnFailure" /\ test_failed
    /\ ~external_network
    /\ \E id \in stop_issued : engine[id] = "stopped"
    /\ named_volumes # {}

\* C14: in every cell that removes everything teardown issues
\* remove_container for every non-static cleanup container, one
\* remove_network call unless the network is external, and remove_volume for
\* every named volume the compositions of the run declare.
C14_RemoveEverything ==
    (teardown_done /\ RemoveEverythingCell) =>
        /\ remove_issued = Range(NonStatic(cleanup))
        /\ network_removal = NetworkCalls
        /\ volume_removal = RunVolumes

\* C14 witness: teardown has returned in the cell (RunningOnFailure, passed)
\* after it removed two containers, the network and two named volumes.
C14_Witness ==
    /\ teardown_done
    /\ prune = "RunningOnFailure" /\ ~test_failed
    /\ ~external_network
    /\ Cardinality(remove_issued) >= 2
    /\ Cardinality(volume_removal) >= 2
    /\ network = "removed"

\* C15: when everything is removed, remove_network and remove_volume are
\* issued only once every remove_container call of the run was issued and
\* answered.
C15_ContainersBeforeNetworkAndVolumes ==
    (RemoveEverythingCell /\ (network_removal > 0 \/ volume_removal # {})) =>
        /\ pc \notin {"remove_container", "join_remove_container"}
        /\ remove_issued = Range(NonStatic(cleanup))

\* C15 witness: the network removal was issued after the removal of two
\* containers, and the removal of the volumes is next.
C15_Witness ==
    /\ pc = "remove_volume"
    /\ network_removal = 1
    /\ volume_removal = {}
    /\ named_volumes # {}
    /\ Cardinality(remove_issued) >= 2

\* C16: when teardown removes the containers, remove_network is never
\* attempted while a non-static container of the run still exists on the
\* engine.
C16_NoNetworkRemovalWhileContainersExist ==
    (RemoveEverythingCell /\ network_removal > 0) => Existing = {}

\* A removal call of the teardown failed: the container, the network or the
\* volume it was issued for is still there.
RemovalFailed ==
    \/ \E id \in remove_issued : engine[id] \in {"created", "running", "stopped"}
    \/ network_removal > 0 /\ network = "created"
    \/ \E v \in volume_removal : v \in volumes

\* C17: when everything is removed and a removal call has failed, every
\* non-static cleanup container, the network and every named volume have
\* still received their removal call.
C17_RemovalFailuresAreIsolated ==
    (teardown_done /\ RemoveEverythingCell /\ RemovalFailed) =>
        /\ Range(NonStatic(cleanup)) \subseteq remove_issued
        /\ ~external_network => network_removal > 0
        /\ named_volumes \subseteq volume_removal

\* C17 witness: the removal of the first of two containers, of the network
\* and of a volume failed, and the second container, the network and both
\* volumes received their removal call.
C17_Witness ==
    /\ teardown_done /\ RemoveEverythingCell
    /\ Len(NonStatic(cleanup)) >= 2
    /\ engine[NonStatic(cleanup)[1]] = "running"
    /\ engine[NonStatic(cleanup)[2]] = "removed"
    /\ network_removal = 1 /\ network = "created"
    /\ Cardinality(volume_removal) = 2
    /\ volume_removal \cap volumes # {}

\* C18: for every prune strategy and test outcome teardown issues no
\* stop_container and no remove_container call for a static container, and
\* every static container of the cleanup set was handed to the cleanup of the
\* static containers.
C18_StaticExcludedFromPrune ==
    /\ \A id \in Ids : is_static(id) => (id \notin stop_issued /\ id \notin remove_issued)
    /\ (teardown_calls > 0 /\ pc # "teardown") =>
           static_cleanup = StaticCleanup(cleanup)

\* C18 witness: teardown has removed a container of the run while the static
\* container of the cleanup set went to the cleanup of the static containers.
C18_Witness ==
    /\ teardown_done
    /\ remove_issued # {}
    /\ static_cleanup # {}
    /\ static_cleanup \subseteq Range(cleanup)

\* The suffixed name of a bare volume name: bare name, '-', run id.
Suffixed(bare) == bare \o "-" \o run_id

\* The bare volume names the compositions of the run declare.
DeclaredBare == UNION { { v.id : v \in Range(volume_decl[i]) } : i \in Ids }

\* resolve_named_volumes has returned.
VolumesResolved == pc \notin {"check_if_inside_container", "resolve_named_volumes"}

\* C20: after resolution every reference to a bare volume name, in whichever
\* composition, carries the suffixed name bare + '-' + run id followed by
\* its path, and the named volumes of the run are the suffixed names of the
\* declared bare names, one for each bare name.
C20_VolumeNamesResolveConsistently ==
    VolumesResolved =>
        /\ \A i \in Ids :
              /\ Len(final_named_volume_names[i]) = Len(volume_decl[i])
              /\ \A k \in DOMAIN volume_decl[i] :
                    final_named_volume_names[i][k]
                        = Suffixed(volume_decl[i][k].id) \o ":" \o volume_decl[i][k].path
        /\ named_volumes = { Suffixed(bare) : bare \in DeclaredBare }
        /\ Cardinality(named_volumes) = Cardinality(DeclaredBare)

\* C20 witness: resolved, the first composition refers to one bare name
\* twice, the second one to the same name again and to the bare name that
\* ends like a suffixed name.
C20_Witness ==
    /\ VolumesResolved
    /\ run_id = "r1"
    /\ Len(compositions) = 2
    /\ Len(volume_decl[1]) = 2 /\ Len(volume_decl[2]) = 2
    /\ volume_decl[1][1].id = "v" /\ volume_decl[1][2].id = "v"
    /\ volume_decl[1][1].path # volume_decl[1][2].path
    /\ volume_decl[2][1].id = "v" /\ volume_decl[2][2].id = "v-r1"
    /\ Cardinality(named_volumes) = 2

ExpectedStripped(name) ==
    IF name = << "db" >> THEN "db"
    ELSE IF name = << "my", "db" >> THEN "my_db"
    ELSE "?"

\* The finalized container name of the composition declared at index i:
\* namespace-name-suffix.
FinalizedName(i) ==
    LET N == IF name_decl[i].user_provided_container_name = << >>
             THEN name_decl[i].repository
             ELSE name_decl[i].user_provided_container_name
    IN  "ns-" \o ExpectedStripped(N) \o "-" \o name_suffix[i]

NamesFinalized == pc \notin {"check_if_inside_container", "resolve_named_volumes",
                             "validate_composition_handlers",
                             "resolve_final_container_name"}

InjectionResolved ==
    pc \notin {"check_if_inside_container", "resolve_named_volumes",
               "validate_composition_handlers", "resolve_final_container_name",
               "resolve_inject_container_name_env"}

\* The injection at position k of composition i has the last word on its
\* env key: no later injection of the composition names the same key.
LastForKey(i, k) ==
    \A l \in DOMAIN inject_decl[i] : l > k => inject_decl[i][l].env # inject_decl[i][k].env

\* The injected handle h cannot be resolved: no composition or more than one
\* declares it.
Unresolvable(h) == Cardinality(DeclaredBy(h)) # 1

BadInjection(i) == \E k \in DOMAIN inject_decl[i] : Unresolvable(inject_decl[i][k].handle)

\* C21 as stated: after a successful resolution, for every (handle, env-key)
\* injection declared on a composition, the env of that composition maps
\* env-key to the finalized container name of the composition the handle
\* resolves to.
C21_EveryInjectionHolds ==
    (InjectionResolved /\ outcome # "error") =>
        \A i \in Ids : \A k \in DOMAIN inject_decl[i] :
            LET inj == inject_decl[i][k]
            IN  /\ inj.env \in DOMAIN env[i]
                /\ \E j \in DeclaredBy(inj.handle) : env[i][inj.env] = FinalizedName(j)

\* C21: after a successful resolution, for every (handle, env-key) injection
\* declared on a composition that no later injection of the same composition
\* overwrites under the same env-key, the env of that composition maps
\* env-key to the finalized container name (namespace-name-suffix) of the
\* composition the handle resolves to, not to the handle and not to the
\* name the composition had before its name was finalized.
C21_LastInjectionPerKeyHolds ==
    (InjectionResolved /\ outcome # "error") =>
        \A i \in Ids : \A k \in DOMAIN inject_decl[i] :
            LET inj == inject_decl[i][k]
            IN  LastForKey(i, k) =>
                  /\ inj.env \in DOMAIN env[i]
                  /\ \E j \in DeclaredBy(inj.handle) :
                        /\ env[i][inj.env] = FinalizedName(j)
                        /\ env[i][inj.env] # inj.handle
                        /\ env[i][inj.env] # Join(name_decl[j].repository, "-")

\* C21 witness: resolution succeeded for two compositions, the second one
\* injects the name of the first one, whose user provided name holds a '/',
\* and the first one, which had a value under the key, injects two names
\* under it.
C21_Witness ==
    /\ pc = "create_network"
    /\ Len(compositions) = 2
    /\ name_decl[1].user_provided_container_name = << "my", "db" >>
    /\ Len(inject_decl[2]) = 1
    /\ inject_decl[2][1].handle = "my/db"
    /\ env[2]["KEY"] = "ns-my_db-sfxa"
    /\ Len(inject_decl[1]) = 2
    /\ inject_decl[1][1].handle = "my/db" /\ inject_decl[1][2].handle = "db"
    /\ env[1]["KEY"] = "ns-db-sfxb"

\* C22: name injection fails with a Startup error that names the requesting
\* composition whenever an injected handle is declared by no composition or
\* by more than one, and the run returns that error before any network or
\* container is created; without such a handle it does not fail.
C22_UnresolvableInjectionFailsFirst ==
    InjectionResolved =>
        IF \E i \in Ids : BadInjection(i)
        THEN LET first == CHOOSE i \in Ids :
                             BadInjection(i) /\ \A j \in Ids : BadInjection(j) => i <= j
             IN  /\ pc = "done"
                 /\ outcome = "error"
                 /\ error = "resolve_inject_container_name_env"
                 /\ error_by.kind = "Startup"
                 /\ error_by.composition = HandleOf(first)
                 /\ Unresolvable(error_by.handle)
                 /\ network = "absent"
                 /\ create_issued = {}
                 /\ \A id \in Ids : engine[id] = "absent"
                 /\ teardown_calls = 0
        ELSE error_by.kind = "none" /\ error # "resolve_inject_container_name_env"

\* C22 witness: the run returned the Startup error for the second of two
\* compositions with one handle, which injects that handle; the first one
\* injects nothing.
C22_Witness ==
    /\ pc = "done"
    /\ error_by.kind = "Startup"
    /\ error_by.cause = "duplicate handle"
    /\ Len(compositions) = 2
    /\ inject_decl[1] = << >>
    /\ error_by.composition = HandleOf(2)
    /\ network = "absent"

\* C25: configure_container_name sets container_name to namespace, '-', N,
\* '-', suffix, where N is the user provided container name when there is
\* one and the image repository otherwise, with '_' for every '/' of N.
C25_ContainerNameIsNamespaceNameSuffix ==
    NamesFinalized =>
        \A i \in Ids :
            container_name[i] =
                namespace \o "-"
                \o ExpectedStripped(IF name_decl[i].user_provided_container_name = << >>
                                    THEN name_decl[i].repository
                                    ELSE name_decl[i].user_provided_container_name)
                \o "-" \o name_suffix[i]

\* C25 witness: the names are finalized for a composition without a user
\* provided name and for one whose user provided name holds a '/'.
C25_Witness ==
    /\ pc = "resolve_inject_container_name_env"
    /\ Len(compositions) = 2
    /\ name_decl[1].user_provided_container_name = << >>
    /\ container_name[1] = "ns-db-sfxa"
    /\ name_decl[2].user_provided_container_name = << "my", "db" >>
    /\ container_name[2] = "ns-my_db-sfxb"

\* The test body has run.
BodyDone == result # "none"

\* What the test body asked for makes handle or failure panic: failure, or
\* handle with a handle that no composition or more than one declares.
BodyMustPanic ==
    \/ body_call = "failure"
    \/ body_call \notin {"none", "failure"} /\ Cardinality(DeclaredBy(body_call)) # 1

\* C23: in the test body, handle(h) returns normally only when h is declared
\* and not collided; for an unknown or collided handle and for every
\* failure(msg) call the body panics, which makes the run count as failed
\* and still leads to teardown.
C23_BadHandleOrFailurePanicsIntoTeardown ==
    BodyDone =>
        /\ (result = "ok" /\ body_call \notin {"none", "failure"})
               => Cardinality(DeclaredBy(body_call)) = 1
        /\ BodyMustPanic => result = "panic"
        /\ (BodyMustPanic /\ pc = "done") => (teardown_done /\ test_failed)

\* C24: with an external network the run issues no create_network and calls
\* no teardown_network (remove_network and the disconnect of the runner
\* itself), on any path and under any prune strategy; with none configured,
\* the run has created its own network before it creates any container.
C24_ExternalNetworkIsLeftAlone ==
    /\ external_network =>
          (network_creation = 0 /\ network_removal = 0 /\ network = "external")
    /\ ~external_network =>
          (create_issued # {} => (network_creation = 1 /\ network # "absent"))

\* C24 witness: a run on an external network has removed its containers and
\* returned.
C24_Witness ==
    /\ external_network
    /\ pc = "done"
    /\ teardown_done
    /\ remove_issued # {}
    /\ \E id \in Ids : engine[id] = "removed"

\* C27: at every lifecycle stage, every index stored in the handle map is a
\* valid index into kept and designates the entity that stems from the
\* composition that claimed the handle.
C27_HandleIndicesDesignateTheirEntity ==
    KeeperReady =>
        \A h \in DOMAIN lookup_handlers :
            LET index == lookup_handlers[h] + 1
            IN  index \in DOMAIN kept /\ kept[index] = index

\* start_containers has returned the error of the strict phase.
StrictFailureReturned == teardown_calls > 0 /\ strict_success = "err"

\* C28: when the strict phase has failed, every launched relaxed unit has
\* completed by the time start_containers has returned: no relaxed start is
\* in flight when the error and the cleanup set are handed to teardown.
C28_RelaxedDrainedBeforeTeardown ==
    StrictFailureReturned =>
        \A id \in Range(relaxed) : task[id] \in {"ready", "failed"}

\* C29: when the strict phase failed with relaxed starts abandoned in flight,
\* no container is started on the engine behind the stop or remove call of
\* teardown that sweeps it, so that none is left running once teardown and
\* the abandoned tasks have finished, whatever the interleaving.
C29_NoStartBehindTheSweep ==
    [][ StrictFailureReturned =>
          \A id \in Ids :
              (id \in stop_issued \cup remove_issued /\ engine[id] # "running")
                  => engine'[id] # "running" ]_vars

\* start_containers has returned an error.
StartContainersFailed == error \in {"strict_start", "relaxed_start", "Processing"}

\* C30: the error start_containers returns is the error of the strict phase
\* whenever the strict phase failed, and an error of the relaxed phase only
\* when the strict phase succeeded, whichever failed first.
C30_StrictErrorTakesPrecedence ==
    /\ StrictFailureReturned => error = "strict_start"
    /\ StartContainersFailed =>
          /\ error = "strict_start" <=> strict_success = "err"
          /\ error # "strict_start" =>
                /\ strict_success = "ok"
                /\ error = "relaxed_start" => \E id \in Range(relaxed) : task[id] = "failed"
                /\ error = "Processing" => \E id \in Range(relaxed) : task[id] = "panicked"

\* C30 witness: start_containers returned the strict error although a
\* relaxed container had failed to start as well.
C30_Witness ==
    /\ pc = "teardown"
    /\ error = "strict_start"
    /\ failed_strict # 0
    /\ \E id \in Range(relaxed) : task[id] = "failed"

\* The composition at index id has gone through create.
CreateCalled(id) == id < instance

\* C26: creating a composition whose container_name already names a
\* container on the engine succeeds when the engine carries out the removal
\* and the creation: the container that was there is force-removed before
\* the create command is issued, and the Recoverable outcome of the removal
\* (the container did not exist) is swallowed and never makes create fail.
C26_CreateReplacesExistingContainer ==
    \A id \in Ids :
        /\ id \in create_issued => engine[id] # "stale"
        /\ CreateCalled(id) =>
              LET a == create_env[id]
              IN  /\ (a.exists /\ a.remove_ok /\ a.image_pulled /\ a.create_ok)
                        => (id \in Range(pending) /\ engine[id] = "created")
                  /\ (~a.exists /\ a.image_pulled /\ a.create_ok)
                        => (id \in Range(pending) /\ engine[id] = "created")
                  /\ (~a.exists /\ a.image_pulled) => id \in create_issued

\* C26 witness: the engine held a container under the name of the first
\* composition and did not answer inspect_container: the create command was
\* issued with that container still there, and create_containers failed.
C26_Witness ==
    /\ CreateCalled(1)
    /\ create_env[1].exists /\ ~create_env[1].inspect_ok
    /\ create_env[1].remove_ok /\ create_env[1].image_pulled /\ create_env[1].create_ok
    /\ 1 \in create_issued
    /\ engine[1] = "stale"
    /\ pc = "teardown"

\* start_containers has returned after a strict phase that succeeded.
ReturnedAfterStrictSuccess ==
    /\ strict_success = "ok"
    /\ pc \notin {"start_containers", "start_strict_containers", "start_container",
                  "wait_for_ready", "await_wait_for_ready",
                  "wait_for_relaxed_containers"}

\* C31: when the strict phase succeeded, start_containers has returned only
\* after every relaxed unit completed: a failed relaxed container does not
\* cut the others short, each one had its start command issued and came to
\* its own result.
C31_RelaxedFailuresAreCollected ==
    ReturnedAfterStrictSuccess =>
        \A id \in Range(relaxed) :
            /\ task[id] \in {"ready", "failed", "panicked"}
            /\ id \in start_issued

\* C31 witness: start_containers returned the relaxed error after one relaxed
\* container failed and another one became ready.
C31_Witness ==
    /\ pc = "teardown"
    /\ error = "relaxed_start"
    /\ strict_success = "ok"
    /\ \E id \in Range(relaxed), other \in Range(relaxed) :
          task[id] = "failed" /\ task[other] = "ready"

\* C32: a start command is issued for a strict container only when every
\* relaxed pending container was launched as a task of its own, and the
\* strict phase never waits for a relaxed task: the next strict start can be
\* issued whatever the relaxed tasks have done.
C32_RelaxedLaunchedBeforeStrict ==
    /\ (\E id \in StrictIds : id \in start_issued) =>
          \A id \in Range(pending) : StartPolicyOf(id) = "Relaxed" => task[id] # "none"
    /\ (pc = "start_strict_containers" /\ strict # << >>) => ENABLED StrictStart

\* C32 witness: the strict phase is over, its container started and ready,
\* while the task of a relaxed container has not issued its start command.
C32_Witness ==
    /\ pc = "wait_for_relaxed_containers"
    /\ strict_success = "ok"
    /\ \E id \in StrictIds : id \in Range(running_containers)
    /\ \E id \in Range(relaxed) : task[id] = "spawned" /\ id \notin start_issued

\* What each step of the resolution stage leaves behind in a run whose first
\* composition declares a named volume and whose compositions inject one
\* name each.
HandlesValidated == stage # "none"
ContainerNamesFinalized ==
    \A i \in Ids : container_name[i] # Join(name_decl[i].repository, "-")
NamedVolumesResolved == final_named_volume_names[1] # << >>
InjectionDone == env # env_decl \/ error_by.kind # "none"

\* C33 as stated: the resolution stage validates the handles, then finalizes
\* the container names, then resolves the named volumes, then resolves the
\* name injection, each step after the previous one.
C33_ValidateNamesVolumesInjection ==
    /\ ContainerNamesFinalized => HandlesValidated
    /\ NamedVolumesResolved => ContainerNamesFinalized
    /\ InjectionDone => NamedVolumesResolved
    /\ pc \in {"create_network", "done"} =>
          (HandlesValidated /\ ContainerNamesFinalized /\ NamedVolumesResolved
             /\ InjectionDone)

\* C33: the resolution stage resolves the named volumes, then validates the
\* handles (building Keeper<Composition>), then finalizes the container
\* names, then resolves the name injection, each step after the previous
\* one.
C33_VolumesValidateNamesInjection ==
    /\ HandlesValidated => NamedVolumesResolved
    /\ ContainerNamesFinalized => HandlesValidated
    /\ InjectionDone => ContainerNamesFinalized
    /\ pc \in {"create_network", "done"} =>
          (HandlesValidated /\ ContainerNamesFinalized /\ NamedVolumesResolved
             /\ InjectionDone)

\* C33 witness: the named volumes are resolved and the handles validated
\* while the container names are still to be finalized.
C33_Witness ==
    /\ pc = "resolve_final_container_name"
    /\ NamedVolumesResolved
    /\ HandlesValidated
    /\ ~ContainerNamesFinalized
    /\ ~InjectionDone

\* C34: within one run, the finalized container names of distinct
\* compositions are pairwise distinct, also when they share the user
\* provided name or the repository.
C34_FinalNamesPairwiseDistinct ==
    ContainerNamesFinalized =>
        \A i \in Ids, j \in Ids : i # j => container_name[i] # container_name[j]

\* The injection at position k of composition i finds a value under its env
\* key: one that was declared, or the name an earlier injection of the
\* composition put there.
Overwrites(i, k) ==
    \/ inject_decl[i][k].env \in DOMAIN env_decl[i]
    \/ \E l \in DOMAIN inject_decl[i] : l < k /\ inject_decl[i][l].env = inject_decl[i][k].env

\* The value the injection at position k of composition i finds under its
\* key.
OverwrittenValue(i, k) ==
    IF \E l \in DOMAIN inject_decl[i] : l < k /\ inject_decl[i][l].env = inject_decl[i][k].env
    THEN LET l == CHOOSE l \in DOMAIN inject_decl[i] :
                     /\ l < k /\ inject_decl[i][l].env = inject_decl[i][k].env
                     /\ \A m \in DOMAIN inject_decl[i] :
                           (m < k /\ inject_decl[i][m].env = inject_decl[i][k].env) => m <= l
         IN  FinalizedName(CHOOSE j \in DeclaredBy(inject_decl[i][l].handle) : TRUE)
    ELSE env_decl[i][inject_decl[i][k].env]

OverwritingInjections ==
    { ik \in Ids \X (1..MaxInject + 1) : ik[2] \in DOMAIN inject_decl[ik[1]] /\ Overwrites(ik[1], ik[2]) }

\* C35: an injection whose env-key has a value already in the env of the
\* requesting composition succeeds and replaces that value by the finalized
\* container name, and a warning is signaled exactly when a value was
\* overwritten: one for every such insert, none for any other.
C35_OverwriteIsAllowedAndSignaled ==
    /\ (InjectionResolved /\ ~\E i \in Ids : BadInjection(i)) => outcome # "error"
    /\ (InjectionResolved /\ outcome # "error") =>
          /\ \A i \in Ids : \A k \in DOMAIN inject_decl[i] :
                (Overwrites(i, k) /\ LastForKey(i, k)) =>
                    \E j \in DeclaredBy(inject_decl[i][k].handle) :
                        env[i][inject_decl[i][k].env] = FinalizedName(j)
          /\ Len(warnings) = Cardinality(OverwritingInjections)
          /\ \A ik \in OverwritingInjections :
                \E w \in DOMAIN warnings :
                    /\ warnings[w].env = inject_decl[ik[1]][ik[2]].env
                    /\ warnings[w].handle = inject_decl[ik[1]][ik[2]].handle
                    /\ warnings[w].old = OverwrittenValue(ik[1], ik[2])

\* C35 witness: injection succeeded for two compositions with one injection
\* each; the one of the first composition overwrote the declared value and
\* was signaled, the one of the second composition overwrote nothing.
C35_Witness ==
    /\ pc = "create_network"
    /\ Len(compositions) = 2
    /\ Len(inject_decl[1]) = 1 /\ Len(inject_decl[2]) = 1
    /\ env[1]["KEY"] # "old"
    /\ Len(warnings) = 1
    /\ warnings[1].old = "old"

\* C40: name injection is all or nothing: when the injection of any
\* composition fails to resolve, the env of no composition was modified (and
\* no overwrite was signaled); env values are written only once every
\* (handle, env-key) pair of every composition has resolved.
C40_InjectionIsAllOrNothing ==
    /\ error_by.kind # "none" => (env = env_decl /\ warnings = << >>)
    /\ env # env_decl => \A i \in Ids : ~BadInjection(i)

\* C40 witness: the injection of the second composition failed to resolve
\* after the one injection of the first composition, which overwrites a
\* declared value, had resolved; no env was modified.
C40_Witness ==
    /\ pc = "done"
    /\ error_by.kind = "Startup"
    /\ Len(compositions) = 2
    /\ Len(inject_decl[1]) = 1
    /\ ~BadInjection(1)
    /\ error_by.composition = HandleOf(2)
    /\ env = env_decl

\* c.start() of the container has returned.
StartCompleted(id) ==
    IF id \in RelaxedIds
    THEN task[id] \in {"ready", "failed", "panicked"}
    ELSE /\ start_result[id] # "none"
         /\ ~(pc \in {"wait_for_ready", "await_wait_for_ready"} /\ Head(strict) = id)

\* C36: PendingContainer::start issues the start command of the engine first
\* and invokes the readiness strategy of the container exactly once, only
\* after the start command succeeded; when the start command fails an error
\* is returned and the readiness strategy is never invoked.
C36_ReadinessOnceAfterSuccessfulStart ==
    \A id \in Ids :
        /\ wait_for_invoked[id] <= 1
        /\ start_result[id] # "none" => id \in start_issued
        /\ wait_for_invoked[id] = 1 => start_result[id] = "Ok"
        /\ (start_result[id] = "Ok" /\ StartCompleted(id)) => wait_for_invoked[id] = 1
        /\ start_result[id] \in {"Err", "NotFoundNoMessage"} =>
              /\ wait_for_invoked[id] = 0
              /\ id \in RelaxedIds => task[id] = "failed"
              /\ id \notin RelaxedIds => strict_success = "err"

\* run_impl returned an error of the creation, the start or the inspection of
\* the containers.
StartupFailure ==
    error \in {"create_containers", "strict_start", "relaxed_start", "Processing",
               "inspect_container"}

\* C37: the test body is invoked only when every composition was created,
\* every pending container was started and passed readiness, and every
\* running container was inspected successfully; on a failure of creation,
\* start or inspection the test body is never invoked.
C37_BodyOnlyAfterFullStartup ==
    /\ result # "none" =>
          /\ \A id \in Ids :
                compositions[id].mgmt # "External" =>
                    id \in Range(pending) /\ id \in create_issued
          /\ \A id \in Range(pending) :
                /\ start_result[id] = "Ok"
                /\ wait_for_invoked[id] = 1
                /\ id \in RelaxedIds => task[id] = "ready"
                /\ id \in Range(running_containers)
          /\ Range(pending) \subseteq Range(kept)
          /\ inspect > Len(kept)
          /\ ~StartupFailure
    /\ (StartupFailure \/ StartupPanicked) => (result = "none" /\ body_call = "none")

\* C37 witness: the test body ran in an environment of a strict and a relaxed
\* container, both created, started, ready and inspected.
C37_Witness ==
    /\ result # "none"
    /\ \E a \in StrictIds, b \in RelaxedIds :
          /\ {a, b} \subseteq Range(pending)
          /\ wait_for_invoked[a] = 1 /\ wait_for_invoked[b] = 1
    /\ inspect = Len(kept) + 1

\* C38: start_containers returns a Keeper<RunningContainer> if and only if
\* every pending container started and became ready; kept then holds the id
\* of every pending container exactly once, and on any failure the error
\* and the cleanup set are returned instead, never a partial Keeper.
C38_KeeperIffAllReady ==
    /\ (stage = "Running" /\ pc = "external_containers") =>
          /\ Len(kept) = Len(pending)
          /\ Range(kept) = Range(pending)
          /\ \A id \in Range(pending) :
                /\ start_result[id] = "Ok"
                /\ wait_for_invoked[id] = 1
                /\ id \in RelaxedIds => task[id] = "ready"
    /\ StartContainersFailed =>
          /\ stage # "Running"
          /\ Range(cleanup) = Range(pending)
          /\ Len(cleanup) = Len(pending)
          /\ \E id \in Range(pending) :
                failed_strict = id \/ task[id] \in {"failed", "panicked"}
    /\ (failed_strict # 0 /\ pc \notin {"start_strict_containers", "start_container",
                                         "wait_for_ready", "await_wait_for_ready",
                                         "wait_for_relaxed_containers"}) =>
          StartContainersFailed

\* What teardown has done when it returns after a startup failure under a
\* strategy that leaves everything, and under StopOnFailure up to the
\* network.
LeftInPlace ==
    /\ stop_issued = {} /\ remove_issued = {} /\ volume_removal = {}
    /\ network_removal = 0
    /\ \A id \in Range(pending) : engine[id] \in {"created", "running"}
    /\ ~external_network => network = "created"

StoppedNotRemoved ==
    /\ stop_issued = { id \in Range(cleanup) : compositions[id].mgmt = "Dynamic" }
    /\ remove_issued = {} /\ volume_removal = {}

\* C39: a failure of creation, start or inspection makes the run a failed
\* one for the prune decision: teardown is invoked with test_failed = true;
\* RunningOnFailure and RunningRegardless then leave the containers and the
\* network in place, and under StopOnFailure the containers are stopped and
\* not removed.
C39_StartupFailureIsAFailedRun ==
    (StartupFailure \/ StartupPanicked) =>
        /\ teardown_calls = 1 /\ test_failed
        /\ teardown_done =>
              /\ prune \in {"RunningOnFailure", "RunningRegardless"} => LeftInPlace
              /\ prune = "StopOnFailure" => StoppedNotRemoved

====
